---- MODULE Spec2Model ----
(***************************************************************************)
(* A model of the Todo App (src/src/main.rs): the TodoApp struct, its      *)
(* construction from the storage slot, its save, and one frame of          *)
(* TodoApp::update per user input event.                                   *)
(*                                                                         *)
(* Strings are sequences of one-character strings, f32 values are          *)
(* integers (pixels), egui::Pos2 / egui::Vec2 are pairs <<x, y>>, an       *)
(* Option is the empty sequence (None) or a one-element sequence (Some).   *)
(* A character outside the printable ASCII range that has no escape here   *)
(* is the string of its code point, "U+00A0" for the no-break space.       *)
(***************************************************************************)
EXTENDS Integers, Sequences, FiniteSets, TLC

VARIABLES app, storage, last

vars == <<app, storage, last>>

----------------------------------------------------------------------------
(* Bounds of the model.                                                    *)

MaxProjects == 2
MaxTasks == 2
MaxBoxes == 3
MaxListed == 3
MaxCanvasBoxes == 2
MaxStored == 1
MaxLineBoxes == 1
MaxLines == 3
MaxPan == 1
MaxDrag == 1
MaxGrow == 1

----------------------------------------------------------------------------
(* Option, strings.                                                        *)

None == <<>>
Some(x) == <<x>>
is_some(o) == Len(o) = 1
unwrap(o) == o[1]

EmptyString == <<>>

\* The characters of the Unicode White_Space property.  A character that a
\* string of this notation cannot hold is written by its code point.
WhiteSpace ==
  {"\t", "\n", "U+000B", "\f", "\r", " ", "U+0085", "U+00A0", "U+1680",
   "U+2000", "U+2001", "U+2002", "U+2003", "U+2004", "U+2005", "U+2006",
   "U+2007", "U+2008", "U+2009", "U+200A", "U+2028", "U+2029", "U+202F",
   "U+205F", "U+3000"}

\* char::is_whitespace
is_whitespace(c) == c \in WhiteSpace

RECURSIVE trim_start(_)
trim_start(s) ==
  IF s = <<>> THEN s
  ELSE IF is_whitespace(Head(s)) THEN trim_start(Tail(s)) ELSE s

RECURSIVE trim_end(_)
trim_end(s) ==
  IF s = <<>> THEN s
  ELSE IF is_whitespace(s[Len(s)]) THEN trim_end(SubSeq(s, 1, Len(s) - 1)) ELSE s

\* str::trim
trim(s) == trim_end(trim_start(s))

Digits == <<"0", "1", "2", "3", "4", "5", "6", "7", "8", "9">>

\* format!("{}", n) for a usize
RECURSIVE fmt_usize(_)
fmt_usize(n) ==
  IF n < 10 THEN <<Digits[n + 1]>>
  ELSE fmt_usize(n \div 10) \o <<Digits[(n % 10) + 1]>>

\* format!("Note {}", n)
fmt_note_title(n) == <<"N", "o", "t", "e", " ">> \o fmt_usize(n)

----------------------------------------------------------------------------
(* Sequence helpers: Vec::remove, Vec::retain, Iterator::find.             *)

\* A panic: the frame does not return and the session ends
Panic == [panicked |-> TRUE]
is_panic(x) == "panicked" \in DOMAIN x

\* Vec::swap_remove(idx): the last element takes the place of the one removed
vec_swap_remove(v, idx) ==
  IF idx \in 1..Len(v)
  THEN [i \in 1..(Len(v) - 1) |-> IF i = idx THEN v[Len(v)] ELSE v[i]]
  ELSE Panic

\* Vec::remove(idx), idx counted from 1 here: "removal index (is {idx}) should
\* be < len (is {len})" when idx is past the end
vec_remove(v, idx) ==
  IF idx \in 1..Len(v)
  THEN [i \in 1..(Len(v) - 1) |-> IF i < idx THEN v[i] ELSE v[i + 1]]
  ELSE Panic

\* Vec::push
vec_push(v, x) == Append(v, x)

\* Vec::retain(|tb| tb.id != id)
RECURSIVE retain_not_id(_, _)
retain_not_id(v, id) ==
  IF v = <<>> THEN <<>>
  ELSE IF Head(v).id /= id THEN <<Head(v)>> \o retain_not_id(Tail(v), id)
  ELSE retain_not_id(Tail(v), id)

\* iter().position(|x| x.id == id): the first index whose id is id, 0 if none
find_idx(v, id) ==
  IF \E i \in 1..Len(v) : v[i].id = id
  THEN CHOOSE i \in 1..Len(v) : v[i].id = id /\ \A j \in 1..(i - 1) : v[j].id /= id
  ELSE 0

ids_of(v) == [i \in 1..Len(v) |-> v[i].id]

----------------------------------------------------------------------------
(* Program constants.                                                      *)

SceneRectSize == 5000
DefaultBoxWidth == 400
DefaultBoxHeight == 250
MinBoxWidth == 150
MinBoxHeight == 80
DefaultFontSize == 16
FirstId == 1

WHITE == "WHITE"

StorageKey == "todo_app_data"

----------------------------------------------------------------------------
(* Default values (impl Default).                                          *)

\* egui::Rect::from_min_size(min, size)
rect_from_min_size(min, size) ==
  [min |-> min, max |-> <<min[1] + size[1], min[2] + size[2]>>]

\* egui::Rect::translate(delta)
rect_translate(r, d) ==
  [min |-> <<r.min[1] + d[1], r.min[2] + d[2]>>,
   max |-> <<r.max[1] + d[1], r.max[2] + d[2]>>]

\* egui::Rect::contains(p)
rect_contains(r, p) ==
  /\ r.min[1] <= p[1] /\ p[1] <= r.max[1]
  /\ r.min[2] <= p[2] /\ p[2] <= r.max[2]

\* impl Default for NotesCanvas
NotesCanvas_default ==
  [text_boxes |-> <<>>,
   next_textbox_id |-> FirstId,
   scene_rect |-> rect_from_min_size(<<0, 0>>, <<SceneRectSize, SceneRectSize>>)]

\* The empty HashMap<usize, String>
EmptyMap == [k \in {} |-> EmptyString]

\* What #[derive(Default)] would give instead of the hand-written impl: every
\* counter 0 and an empty scene rectangle
TodoApp_derived_default ==
  [projects |-> <<>>,
   next_project_id |-> 0,
   next_task_id |-> 0,
   new_project_name |-> EmptyString,
   editing_project |-> None,
   editing_task |-> None,
   new_task_texts |-> EmptyMap,
   edit_project_text |-> EmptyString,
   edit_task_text |-> EmptyString,
   adding_task_to_project |-> None,
   right_click_task_text |-> EmptyMap,
   notes_canvas |-> [text_boxes |-> <<>>,
                     next_textbox_id |-> 0,
                     scene_rect |-> [min |-> <<0, 0>>, max |-> <<0, 0>>]],
   show_notes |-> FALSE,
   context_menu_pos |-> None,
   editing_textbox |-> None,
   editing_line_idx |-> None,
   temp_edit_text |-> EmptyString,
   editing_title |-> None,
   temp_title_text |-> EmptyString]

\* impl Default for TodoApp
TodoApp_default ==
  [projects |-> <<>>,
   next_project_id |-> FirstId,
   next_task_id |-> FirstId,
   new_project_name |-> EmptyString,
   editing_project |-> None,
   editing_task |-> None,
   new_task_texts |-> EmptyMap,
   edit_project_text |-> EmptyString,
   edit_task_text |-> EmptyString,
   adding_task_to_project |-> None,
   right_click_task_text |-> EmptyMap,
   notes_canvas |-> NotesCanvas_default,
   show_notes |-> FALSE,
   context_menu_pos |-> None,
   editing_textbox |-> None,
   editing_line_idx |-> None,
   temp_edit_text |-> EmptyString,
   editing_title |-> None,
   temp_title_text |-> EmptyString]

----------------------------------------------------------------------------
(* Persistence: #[derive(Serialize, Deserialize)], field for field, over   *)
(* the RON text eframe::set_value writes.  A stored value is a document:   *)
(* an integer, a float, a bool, a string, a colour, a list of documents, a *)
(* struct (a sequence of <<field name, document>> pairs holding the fields *)
(* that are not #[serde(skip)]) or an enum variant with its payload.       *)
(* Deserializing a struct looks every field up by name, skips a field it   *)
(* does not know, fails when a field is missing, is given twice or holds a *)
(* document of another type, and gives a skipped field its Default.        *)

RInt(n) == [ron |-> "integer", v |-> n]
RFloat(x) == [ron |-> "float", v |-> x]
RBool(b) == [ron |-> "bool", v |-> b]
RString(s) == [ron |-> "string", v |-> s]
RColor(c) == [ron |-> "color", v |-> c]
RList(xs) == [ron |-> "list", v |-> xs]
RStruct(fields) == [ron |-> "struct", v |-> fields]
RVariant(name, payload) == [ron |-> "variant", name |-> name, v |-> payload]

has_field(d, n) == \E i \in 1..Len(d.v) : d.v[i][1] = n
get_field(d, n) == d.v[CHOOSE i \in 1..Len(d.v) : d.v[i][1] = n][2]

\* d is a struct that holds every field of names, and none of them twice
has_fields(d, names) ==
  /\ d.ron = "struct"
  /\ \A n \in names : Cardinality({i \in 1..Len(d.v) : d.v[i][1] = n}) = 1

DeErr == [ok |-> FALSE]
DeOk(v) == [ok |-> TRUE, value |-> v]

\* usize: an integer that is not negative
de_usize(d) == IF d.ron = "integer" /\ d.v >= 0 THEN DeOk(d.v) ELSE DeErr

\* f32: a number, written with or without a fraction
de_f32(d) == IF d.ron \in {"float", "integer"} THEN DeOk(d.v) ELSE DeErr

de_bool(d) == IF d.ron = "bool" THEN DeOk(d.v) ELSE DeErr

de_String(d) == IF d.ron = "string" THEN DeOk(d.v) ELSE DeErr

\* egui::Color32
de_Color32(d) == IF d.ron = "color" THEN DeOk(d.v) ELSE DeErr

\* egui::Pos2 and egui::Vec2: the struct (x, y)
ser_Pos2(p) == RStruct(<< <<"x", RFloat(p[1])>>, <<"y", RFloat(p[2])>> >>)

de_Pos2(d) ==
  IF /\ has_fields(d, {"x", "y"})
     /\ de_f32(get_field(d, "x")).ok
     /\ de_f32(get_field(d, "y")).ok
  THEN DeOk(<<de_f32(get_field(d, "x")).value, de_f32(get_field(d, "y")).value>>)
  ELSE DeErr

\* egui::Rect: the struct (min, max)
ser_Rect(r) == RStruct(<< <<"min", ser_Pos2(r.min)>>, <<"max", ser_Pos2(r.max)>> >>)

de_Rect(d) ==
  IF /\ has_fields(d, {"min", "max"})
     /\ de_Pos2(get_field(d, "min")).ok
     /\ de_Pos2(get_field(d, "max")).ok
  THEN DeOk([min |-> de_Pos2(get_field(d, "min")).value,
             max |-> de_Pos2(get_field(d, "max")).value])
  ELSE DeErr

\* BulletStyle: None | Circle | Square | Dash | Numbered(usize)
None_ == <<"None">>
Circle == <<"Circle">>
Square == <<"Square">>
Dash == <<"Dash">>
Numbered(n) == <<"Numbered", n>>
is_numbered(bs) == bs[1] = "Numbered"

ser_BulletStyle(bs) ==
  RVariant(bs[1], [i \in 1..(Len(bs) - 1) |-> RInt(bs[i + 1])])

\* A unit variant has no payload, Numbered has one usize
de_BulletStyle(d) ==
  IF d.ron /= "variant" THEN DeErr
  ELSE IF d.name \in {"None", "Circle", "Square", "Dash"} /\ d.v = <<>>
  THEN DeOk(<<d.name>>)
  ELSE IF d.name = "Numbered" /\ Len(d.v) = 1 /\ de_usize(d.v[1]).ok
  THEN DeOk(Numbered(de_usize(d.v[1]).value))
  ELSE DeErr

ser_TextLine(l) ==
  RStruct(<< <<"text", RString(l.text)>>,
             <<"bullet_style", ser_BulletStyle(l.bullet_style)>>,
             <<"bullet_color", RColor(l.bullet_color)>> >>)

de_TextLine(d) ==
  IF /\ has_fields(d, {"text", "bullet_style", "bullet_color"})
     /\ de_String(get_field(d, "text")).ok
     /\ de_BulletStyle(get_field(d, "bullet_style")).ok
     /\ de_Color32(get_field(d, "bullet_color")).ok
  THEN DeOk([text |-> de_String(get_field(d, "text")).value,
             bullet_style |-> de_BulletStyle(get_field(d, "bullet_style")).value,
             bullet_color |-> de_Color32(get_field(d, "bullet_color")).value])
  ELSE DeErr

\* is_dragging is #[serde(skip)]
ser_TextBox(b) ==
  RStruct(<< <<"id", RInt(b.id)>>,
             <<"title", RString(b.title)>>,
             <<"position", ser_Pos2(b.position)>>,
             <<"size", ser_Pos2(b.size)>>,
             <<"lines", RList([i \in 1..Len(b.lines) |-> ser_TextLine(b.lines[i])])>>,
             <<"font_size", RFloat(b.font_size)>>,
             <<"text_color", RColor(b.text_color)>>,
             <<"min_size", ser_Pos2(b.min_size)>> >>)

de_TextBox(d) ==
  IF /\ has_fields(d, {"id", "title", "position", "size", "lines",
                       "font_size", "text_color", "min_size"})
     /\ de_usize(get_field(d, "id")).ok
     /\ de_String(get_field(d, "title")).ok
     /\ de_Pos2(get_field(d, "position")).ok
     /\ de_Pos2(get_field(d, "size")).ok
     /\ get_field(d, "lines").ron = "list"
     /\ \A i \in 1..Len(get_field(d, "lines").v) :
          de_TextLine(get_field(d, "lines").v[i]).ok
     /\ de_f32(get_field(d, "font_size")).ok
     /\ de_Color32(get_field(d, "text_color")).ok
     /\ de_Pos2(get_field(d, "min_size")).ok
  THEN DeOk([id |-> de_usize(get_field(d, "id")).value,
             title |-> de_String(get_field(d, "title")).value,
             position |-> de_Pos2(get_field(d, "position")).value,
             size |-> de_Pos2(get_field(d, "size")).value,
             lines |-> [i \in 1..Len(get_field(d, "lines").v) |->
                          de_TextLine(get_field(d, "lines").v[i]).value],
             font_size |-> de_f32(get_field(d, "font_size")).value,
             text_color |-> de_Color32(get_field(d, "text_color")).value,
             min_size |-> de_Pos2(get_field(d, "min_size")).value,
             is_dragging |-> FALSE])
  ELSE DeErr

ser_NotesCanvas(c) ==
  RStruct(<< <<"text_boxes",
               RList([i \in 1..Len(c.text_boxes) |-> ser_TextBox(c.text_boxes[i])])>>,
             <<"next_textbox_id", RInt(c.next_textbox_id)>>,
             <<"scene_rect", ser_Rect(c.scene_rect)>> >>)

de_NotesCanvas(d) ==
  IF /\ has_fields(d, {"text_boxes", "next_textbox_id", "scene_rect"})
     /\ get_field(d, "text_boxes").ron = "list"
     /\ \A i \in 1..Len(get_field(d, "text_boxes").v) :
          de_TextBox(get_field(d, "text_boxes").v[i]).ok
     /\ de_usize(get_field(d, "next_textbox_id")).ok
     /\ de_Rect(get_field(d, "scene_rect")).ok
  THEN DeOk([text_boxes |-> [i \in 1..Len(get_field(d, "text_boxes").v) |->
                               de_TextBox(get_field(d, "text_boxes").v[i]).value],
             next_textbox_id |-> de_usize(get_field(d, "next_textbox_id")).value,
             scene_rect |-> de_Rect(get_field(d, "scene_rect")).value])
  ELSE DeErr

ser_Task(t) ==
  RStruct(<< <<"id", RInt(t.id)>>,
             <<"text", RString(t.text)>>,
             <<"completed", RBool(t.completed)>> >>)

de_Task(d) ==
  IF /\ has_fields(d, {"id", "text", "completed"})
     /\ de_usize(get_field(d, "id")).ok
     /\ de_String(get_field(d, "text")).ok
     /\ de_bool(get_field(d, "completed")).ok
  THEN DeOk([id |-> de_usize(get_field(d, "id")).value,
             text |-> de_String(get_field(d, "text")).value,
             completed |-> de_bool(get_field(d, "completed")).value])
  ELSE DeErr

ser_Project(p) ==
  RStruct(<< <<"id", RInt(p.id)>>,
             <<"name", RString(p.name)>>,
             <<"tasks", RList([i \in 1..Len(p.tasks) |-> ser_Task(p.tasks[i])])>>,
             <<"expanded", RBool(p.expanded)>> >>)

de_Project(d) ==
  IF /\ has_fields(d, {"id", "name", "tasks", "expanded"})
     /\ de_usize(get_field(d, "id")).ok
     /\ de_String(get_field(d, "name")).ok
     /\ get_field(d, "tasks").ron = "list"
     /\ \A i \in 1..Len(get_field(d, "tasks").v) :
          de_Task(get_field(d, "tasks").v[i]).ok
     /\ de_bool(get_field(d, "expanded")).ok
  THEN DeOk([id |-> de_usize(get_field(d, "id")).value,
             name |-> de_String(get_field(d, "name")).value,
             tasks |-> [i \in 1..Len(get_field(d, "tasks").v) |->
                          de_Task(get_field(d, "tasks").v[i]).value],
             expanded |-> de_bool(get_field(d, "expanded")).value])
  ELSE DeErr

\* Every field of TodoApp but projects, next_project_id, next_task_id and
\* notes_canvas is #[serde(skip)].
ser_TodoApp(a) ==
  RStruct(<< <<"projects",
               RList([i \in 1..Len(a.projects) |-> ser_Project(a.projects[i])])>>,
             <<"next_project_id", RInt(a.next_project_id)>>,
             <<"next_task_id", RInt(a.next_task_id)>>,
             <<"notes_canvas", ser_NotesCanvas(a.notes_canvas)>> >>)

\* A load that lists the projects newest first
de_TodoApp_newest_first(d) ==
  IF /\ has_fields(d, {"projects", "next_project_id", "next_task_id", "notes_canvas"})
     /\ get_field(d, "projects").ron = "list"
     /\ \A i \in 1..Len(get_field(d, "projects").v) :
          de_Project(get_field(d, "projects").v[i]).ok
     /\ de_usize(get_field(d, "next_project_id")).ok
     /\ de_usize(get_field(d, "next_task_id")).ok
     /\ de_NotesCanvas(get_field(d, "notes_canvas")).ok
  THEN DeOk([TodoApp_default EXCEPT
               !.projects = [i \in 1..Len(get_field(d, "projects").v) |->
                               de_Project(get_field(d, "projects").v[
                                 Len(get_field(d, "projects").v) + 1 - i]).value],
               !.next_project_id = de_usize(get_field(d, "next_project_id")).value,
               !.next_task_id = de_usize(get_field(d, "next_task_id")).value,
               !.notes_canvas = de_NotesCanvas(get_field(d, "notes_canvas")).value])
  ELSE DeErr

de_TodoApp(d) ==
  IF /\ has_fields(d, {"projects", "next_project_id", "next_task_id", "notes_canvas"})
     /\ get_field(d, "projects").ron = "list"
     /\ \A i \in 1..Len(get_field(d, "projects").v) :
          de_Project(get_field(d, "projects").v[i]).ok
     /\ de_usize(get_field(d, "next_project_id")).ok
     /\ de_usize(get_field(d, "next_task_id")).ok
     /\ de_NotesCanvas(get_field(d, "notes_canvas")).ok
  THEN DeOk([TodoApp_default EXCEPT
               !.projects = [i \in 1..Len(get_field(d, "projects").v) |->
                               de_Project(get_field(d, "projects").v[i]).value],
               !.next_project_id = de_usize(get_field(d, "next_project_id")).value,
               !.next_task_id = de_usize(get_field(d, "next_task_id")).value,
               !.notes_canvas = de_NotesCanvas(get_field(d, "notes_canvas")).value])
  ELSE DeErr

\* A state with one project, as a session may have saved it
OneProject ==
  [TodoApp_default EXCEPT
     !.projects = <<[id |-> FirstId, name |-> <<"a">>, tasks |-> <<>>,
                     expanded |-> TRUE]>>,
     !.next_project_id = FirstId + 1]

\* Stored values that are not a serialized TodoApp: a struct without the
\* fields, the document of OneProject with the field projects given a second
\* time, and that document with a string for next_task_id.
Garbage == RStruct(<< <<"garbage", RList(<<>>)>> >>)
TwiceProjects ==
  RStruct(ser_TodoApp(OneProject).v \o << <<"projects", RList(<<>>)>> >>)
IllTypedCounter ==
  RStruct([i \in 1..Len(ser_TodoApp(OneProject).v) |->
             IF ser_TodoApp(OneProject).v[i][1] = "next_task_id"
             THEN <<"next_task_id", RString(<<"1">>)>>
             ELSE ser_TodoApp(OneProject).v[i]])

\* The storage handed to the app: cc.storage is None (available = FALSE) or a
\* key-value store.
NoStorage == [available |-> FALSE, slots |-> [k \in {} |-> <<>>]]
EmptyStorage == [available |-> TRUE, slots |-> [k \in {} |-> <<>>]]
StorageWith(doc) == [available |-> TRUE, slots |-> [k \in {StorageKey} |-> doc]]

\* eframe::get_value(storage, key): None when the key is absent or the value
\* does not deserialize
get_value(st, key) ==
  IF key \in DOMAIN st.slots
  THEN LET loaded == de_TodoApp(st.slots[key]) IN
       IF loaded.ok THEN Some(loaded.value) ELSE None
  ELSE None

\* eframe::set_value(storage, key, value)
set_value(st, key, a) ==
  [st EXCEPT !.slots = [k \in (DOMAIN st.slots) \cup {key} |->
                          IF k = key THEN ser_TodoApp(a) ELSE st.slots[k]]]

\* Option::unwrap_or_default
unwrap_or_default(o) == IF is_some(o) THEN unwrap(o) ELSE TodoApp_default

\* TodoApp::new
TodoApp_new(st) ==
  IF st.available
  THEN unwrap_or_default(get_value(st, StorageKey))
  ELSE TodoApp_default

\* <TodoApp as eframe::App>::save
TodoApp_save(a, st) == set_value(st, StorageKey, a)

----------------------------------------------------------------------------
(* Todo methods.                                                           *)

\* An add_project that takes any name
add_project_any_name(a) ==
  [a EXCEPT !.projects = vec_push(@, [id |-> a.next_project_id,
                                       name |-> a.new_project_name,
                                       tasks |-> <<>>,
                                       expanded |-> TRUE]),
            !.next_project_id = @ + 1,
            !.new_project_name = EmptyString]

\* An add_project that numbers the project by its place in the list
add_project_by_place(a) ==
  IF trim(a.new_project_name) /= EmptyString
  THEN [a EXCEPT !.projects = vec_push(@, [id |-> Len(a.projects) + 1,
                                            name |-> a.new_project_name,
                                            tasks |-> <<>>,
                                            expanded |-> TRUE]),
                 !.next_project_id = @ + 1,
                 !.new_project_name = EmptyString]
  ELSE a

\* TodoApp::add_project
add_project(a) ==
  IF trim(a.new_project_name) /= EmptyString
  THEN [a EXCEPT
          !.projects = vec_push(@, [id |-> a.next_project_id,
                                    name |-> a.new_project_name,
                                    tasks |-> <<>>,
                                    expanded |-> TRUE]),
          !.next_project_id = @ + 1,
          !.new_project_name = EmptyString]
  ELSE a

\* A task that keeps the text as it was typed
new_task_untrimmed(a, task_text) ==
  [id |-> a.next_task_id, text |-> task_text, completed |-> FALSE]

\* The task pushed by add_task_to_project
new_task(a, task_text) ==
  [id |-> a.next_task_id, text |-> trim(task_text), completed |-> FALSE]

\* An add_task_to_project that takes any text
add_task_to_project_any_text(a, project_id, task_text) ==
  LET idx == find_idx(a.projects, project_id) IN
  IF idx /= 0
  THEN [a EXCEPT
          !.projects[idx].tasks = vec_push(@, new_task(a, task_text)),
          !.next_task_id = @ + 1]
  ELSE a

\* TodoApp::add_task_to_project
add_task_to_project(a, project_id, task_text) ==
  LET idx == find_idx(a.projects, project_id) IN
  IF idx /= 0 /\ trim(task_text) /= EmptyString
  THEN [a EXCEPT
          !.projects[idx].tasks = vec_push(@, new_task(a, task_text)),
          !.next_task_id = @ + 1]
  ELSE a

----------------------------------------------------------------------------
(* HashMap<usize, String> operations.                                      *)

\* An entry(k) that inserts nothing
map_or_nothing(m, k) == m

\* entry(k).or_insert_with(String::new)
map_or_insert(m, k) ==
  IF k \in DOMAIN m THEN m
  ELSE [x \in (DOMAIN m) \cup {k} |-> IF x = k THEN EmptyString ELSE m[x]]

\* if let Some(s) = get_mut(k) { s.clear() }
map_clear_at(m, k) ==
  IF k \in DOMAIN m THEN [m EXCEPT ![k] = EmptyString] ELSE m

\* *get_mut(k).unwrap() = v: "called `Option::unwrap()` on a `None` value"
\* when the map has no entry for k
map_set_at(m, k, v) == IF k \in DOMAIN m THEN [m EXCEPT ![k] = v] ELSE Panic

\* remove(k)
map_remove(m, k) == [x \in (DOMAIN m) \ {k} |-> m[x]]

----------------------------------------------------------------------------
(* One frame of render_todo_view with the user input event ev.  An event   *)
(* is a record with a kind and, as the kind needs, p (a project's index),  *)
(* t (a task's index), text (a text field's new content).                  *)

\* The widgets of the frame: what the closures change while the projects are
\* iterated, the removal of the project's deleted tasks included.
todo_widgets(a, ev) ==
  CASE ev.kind = "type_new_project" ->
         [a EXCEPT !.new_project_name = ev.text]
    [] ev.kind = "add_project" -> add_project(a)
    [] ev.kind = "expand_clicked" ->
         [a EXCEPT !.projects[ev.p].expanded = ~@]
    [] ev.kind = "type_edit_project" ->
         [a EXCEPT !.edit_project_text = ev.text]
    [] ev.kind = "edit_project_confirm" ->
         IF trim(a.edit_project_text) /= EmptyString
         THEN [a EXCEPT !.projects[ev.p].name = a.edit_project_text]
         ELSE a
    [] ev.kind = "task_checkbox" ->
         [a EXCEPT !.projects[ev.p].tasks[ev.t].completed = ~@]
    [] ev.kind = "type_edit_task" ->
         [a EXCEPT !.edit_task_text = ev.text]
    [] ev.kind = "edit_task_confirm" ->
         IF trim(a.edit_task_text) /= EmptyString
         THEN [a EXCEPT !.projects[ev.p].tasks[ev.t].text = a.edit_task_text]
         ELSE a
    [] ev.kind = "delete_task" ->
         [a EXCEPT !.projects[ev.p].tasks = vec_remove(@, ev.t)]
    [] ev.kind = "type_right_click_task" ->
         IF a.projects[ev.p].id \in DOMAIN a.right_click_task_text
         THEN [a EXCEPT !.right_click_task_text =
                           map_set_at(@, a.projects[ev.p].id, ev.text)]
         ELSE Panic
    [] OTHER -> a

PAct(action, project_id, text) ==
  [action |-> action, project_id |-> project_id, text |-> text]

\* project_actions, as the frame's widgets fill it
project_actions(a, ev) ==
  CASE ev.kind = "expand_secondary_clicked" ->
         <<PAct("add_task", a.projects[ev.p].id, EmptyString)>>
    [] ev.kind \in {"edit_project_confirm", "edit_project_cancel"} ->
         <<PAct("stop_edit", a.projects[ev.p].id, EmptyString)>>
    [] ev.kind = "edit_project" ->
         <<PAct("start_edit", a.projects[ev.p].id, a.projects[ev.p].name)>>
    [] ev.kind = "new_task_confirm" ->
         LET pid == a.projects[ev.p].id
             task_text == a.right_click_task_text[pid] IN
         (IF trim(task_text) /= EmptyString
          THEN <<PAct("create_task", pid, task_text)>> ELSE <<>>)
         \o <<PAct("cancel_add_task", pid, EmptyString)>>
    [] ev.kind = "new_task_close" ->
         <<PAct("cancel_add_task", a.projects[ev.p].id, EmptyString)>>
    [] OTHER -> <<>>

TAct(action, project_id, task_id, text) ==
  [action |-> action, project_id |-> project_id, task_id |-> task_id, text |-> text]

\* task_actions, as the frame's widgets fill it
task_actions(a, ev) ==
  CASE ev.kind = "edit_task" ->
         <<TAct("start_edit", a.projects[ev.p].id, a.projects[ev.p].tasks[ev.t].id,
                a.projects[ev.p].tasks[ev.t].text)>>
    [] ev.kind \in {"edit_task_confirm", "edit_task_cancel"} ->
         <<TAct("stop_edit", a.projects[ev.p].id, a.projects[ev.p].tasks[ev.t].id,
                EmptyString)>>
    [] OTHER -> <<>>

\* projects_to_remove, as the frame's widgets fill it
projects_to_remove(a, ev) ==
  IF ev.kind = "delete_project" THEN <<ev.p>> ELSE <<>>

\* One arm of "Process project actions"
process_project_action(a, act) ==
  CASE act.action = "start_edit" ->
         [a EXCEPT !.editing_project = Some(act.project_id),
                   !.edit_project_text = act.text]
    [] act.action = "stop_edit" ->
         [a EXCEPT !.editing_project = None]
    [] act.action = "add_task" ->
         [a EXCEPT !.adding_task_to_project = Some(act.project_id),
                   !.right_click_task_text = map_or_insert(@, act.project_id)]
    [] act.action = "create_task" ->
         add_task_to_project(a, act.project_id, act.text)
    [] act.action = "cancel_add_task" ->
         [a EXCEPT !.adding_task_to_project = None,
                   !.right_click_task_text = map_clear_at(@, act.project_id)]
    [] OTHER -> a

RECURSIVE process_project_actions(_, _)
process_project_actions(a, acts) ==
  IF acts = <<>> THEN a
  ELSE process_project_actions(process_project_action(a, Head(acts)), Tail(acts))

\* Task actions whose stop_edit leaves the edit mode on
process_task_action_staying(a, act) ==
  CASE act.action = "start_edit" ->
         [a EXCEPT !.editing_task = Some(<<act.project_id, act.task_id>>),
                   !.edit_task_text = act.text]
    [] OTHER -> a

\* One arm of "Process task actions"
process_task_action(a, act) ==
  CASE act.action = "start_edit" ->
         [a EXCEPT !.editing_task = Some(<<act.project_id, act.task_id>>),
                   !.edit_task_text = act.text]
    [] act.action = "stop_edit" ->
         [a EXCEPT !.editing_task = None]
    [] OTHER -> a

RECURSIVE process_task_actions(_, _)
process_task_actions(a, acts) ==
  IF acts = <<>> THEN a
  ELSE process_task_actions(process_task_action(a, Head(acts)), Tail(acts))

\* "Remove projects": for &idx in projects_to_remove.iter().rev()
RECURSIVE remove_projects(_, _)
remove_projects(a, idxs) ==
  IF idxs = <<>> THEN a
  ELSE LET idx == idxs[Len(idxs)]
           project_id == a.projects[idx].id IN
       remove_projects([a EXCEPT !.projects = vec_remove(@, idx),
                                 !.new_task_texts = map_remove(@, project_id)],
                       SubSeq(idxs, 1, Len(idxs) - 1))

\* "Show inline task creation UI when this project is selected for task
\* addition": the frame that draws the projects of a unwraps the draft of
\* every expanded project adding_task_to_project names, and panics when
\* right_click_task_text has no entry for it
inline_input_panics(a) ==
  \E i \in 1..Len(a.projects) :
    /\ a.projects[i].expanded
    /\ a.adding_task_to_project = Some(a.projects[i].id)
    /\ a.projects[i].id \notin DOMAIN a.right_click_task_text

\* TodoApp::render_todo_view
render_todo_view(a, ev) ==
  LET drawn == todo_widgets(a, ev) IN
  IF is_panic(drawn) THEN Panic
  ELSE IF inline_input_panics(drawn) THEN Panic
  ELSE remove_projects(
         process_task_actions(
           process_project_actions(drawn, project_actions(a, ev)),
           task_actions(a, ev)),
         projects_to_remove(a, ev))

\* A header that offers the edit and delete buttons whatever is being edited
project_display_mode_always(a, project) == TRUE

\* Whether the header of the project is in display mode: the else branch of
\* "if self.editing_project == Some(project.id)", with the buttons
project_display_mode(a, project) == a.editing_project /= Some(project.id)

\* Whether the frame rendered from state a shows the widget ev acts on.
todo_widget_shown(a, ev) ==
  LET has_p == ev.p \in 1..Len(a.projects)
      proj == a.projects[ev.p]
      has_t == has_p /\ proj.expanded /\ ev.t \in 1..Len(proj.tasks)
      task == proj.tasks[ev.t] IN
  CASE ev.kind \in {"type_new_project", "add_project"} -> TRUE
    [] ev.kind \in {"expand_clicked", "expand_secondary_clicked"} -> has_p
    [] ev.kind \in {"type_edit_project", "edit_project_confirm", "edit_project_cancel"} ->
         has_p /\ a.editing_project = Some(proj.id)
    [] ev.kind \in {"delete_project", "edit_project"} ->
         has_p /\ project_display_mode(a, proj)
    [] ev.kind = "task_checkbox" -> has_t
    [] ev.kind \in {"type_edit_task", "edit_task_confirm", "edit_task_cancel"} ->
         has_t /\ a.editing_task = Some(<<proj.id, task.id>>)
    [] ev.kind \in {"delete_task", "edit_task"} ->
         has_t /\ a.editing_task /= Some(<<proj.id, task.id>>)
    [] ev.kind \in {"type_right_click_task", "new_task_confirm", "new_task_close"} ->
         has_p /\ proj.expanded /\ a.adding_task_to_project = Some(proj.id)
    [] OTHER -> FALSE

----------------------------------------------------------------------------
(* Notes canvas.  Indices of text boxes and of lines count from 1 here     *)
(* (from 0 in the source); editing_line_idx holds such an index.           *)

vec2_add(u, v) == <<u[1] + v[1], u[2] + v[2]>>
vec2_sub(u, v) == <<u[1] - v[1], u[2] - v[2]>>
max_(x, y) == IF x >= y THEN x ELSE y
\* egui::Vec2::max: the component-wise maximum
vec2_max(u, v) == <<max_(u[1], v[1]), max_(u[2], v[2])>>

\* The TextLine pushed by add_line and by create_text_box_at
empty_line == [text |-> EmptyString, bullet_style |-> None_, bullet_color |-> WHITE]

\* The TextBox built by create_text_box_at
new_text_box(c, pos) ==
  [id |-> c.next_textbox_id,
   title |-> fmt_note_title(c.next_textbox_id),
   position |-> pos,
   size |-> <<DefaultBoxWidth, DefaultBoxHeight>>,
   lines |-> <<empty_line>>,
   font_size |-> DefaultFontSize,
   text_color |-> WHITE,
   min_size |-> <<MinBoxWidth, MinBoxHeight>>,
   is_dragging |-> FALSE]

\* Where create_text_box_at puts the new box in text_boxes
insert_text_box(boxes, tb) == vec_push(boxes, tb)

\* TodoApp::create_text_box_at
create_text_box_at(a, pos) ==
  [a EXCEPT
     !.notes_canvas.text_boxes = insert_text_box(@, new_text_box(a.notes_canvas, pos)),
     !.notes_canvas.next_textbox_id = @ + 1]

\* A numbering that counts the lines before line_idx, whatever their bullets
calculate_line_position(textbox, line_idx) == line_idx

\* TodoApp::calculate_numbered_position
calculate_numbered_position(textbox, line_idx) ==
  1 + Cardinality({i \in 1..(line_idx - 1) : is_numbered(textbox.lines[i].bullet_style)})

\* let pan_offset = self.notes_canvas.scene_rect.min.to_vec2()
pan_offset(a) == a.notes_canvas.scene_rect.min

\* A pan that stops at the origin of the scene
pan_canvas_clamped(a, ev) ==
  IF ev.kind = "pan"
  THEN LET r == a.notes_canvas.scene_rect
           to == vec2_max(vec2_add(r.min, ev.delta), <<0, 0>>) IN
       [a EXCEPT !.notes_canvas.scene_rect =
                   rect_translate(r, vec2_sub(to, r.min))]
  ELSE a

\* "Detect middle mouse or two-finger drag for panning"
pan_canvas(a, ev) ==
  IF ev.kind = "pan"
  THEN [a EXCEPT !.notes_canvas.scene_rect = rect_translate(@, ev.delta)]
  ELSE a

\* A drag that moves the box whenever the response is dragged
drag_text_box_unguarded(tb, ev) ==
  LET started == IF ev.drag_started THEN [tb EXCEPT !.is_dragging = TRUE] ELSE tb
      moved == IF ev.dragged
               THEN [started EXCEPT !.position = vec2_add(@, ev.delta)]
               ELSE started IN
  IF ev.drag_stopped THEN [moved EXCEPT !.is_dragging = FALSE] ELSE moved

\* A resize without the clamp to min_size
resize_text_box_unclamped(tb, delta) ==
  [tb EXCEPT !.size = vec2_add(tb.size, delta)]

\* "Handle dragging": the frame's response of box ev.b carries the flags
\* drag_started, dragged, drag_stopped and the drag delta
drag_text_box(tb, ev) ==
  LET started == IF ev.drag_started THEN [tb EXCEPT !.is_dragging = TRUE] ELSE tb
      moved == IF ev.dragged /\ started.is_dragging
               THEN [started EXCEPT !.position = vec2_add(@, ev.delta)]
               ELSE started IN
  IF ev.drag_stopped THEN [moved EXCEPT !.is_dragging = FALSE] ELSE moved

\* "Resize handle (bottom-right corner)": resize_response.dragged()
resize_text_box(tb, delta) ==
  [tb EXCEPT !.size = vec2_max(vec2_add(tb.size, delta), tb.min_size)]

\* The widgets of render_text_boxes: what the frame changes while the boxes
\* are iterated
text_box_widgets(a, ev) ==
  CASE ev.kind = "type_title" -> [a EXCEPT !.temp_title_text = ev.text]
    [] ev.kind = "box_drag" ->
         [a EXCEPT !.notes_canvas.text_boxes[ev.b] = drag_text_box(@, ev)]
    [] ev.kind = "box_resize" ->
         [a EXCEPT !.notes_canvas.text_boxes[ev.b] = resize_text_box(@, ev.delta)]
    [] OTHER -> a

BAct(action, textbox_id, line_idx) ==
  [action |-> action, textbox_id |-> textbox_id, line_idx |-> line_idx]

\* actions, as the frame's widgets fill it
text_box_actions(a, ev) ==
  LET id == a.notes_canvas.text_boxes[ev.b].id IN
  CASE ev.kind = "title_enter" -> <<BAct("save_title", id, 0)>>
    [] ev.kind = "title_escape" -> <<BAct("cancel_title_edit", id, 0)>>
    [] ev.kind = "title_double_clicked" -> <<BAct("edit_title", id, 0)>>
    [] ev.kind = "box_delete" -> <<BAct("delete", id, 0)>>
    [] ev.kind = "line_clicked" -> <<BAct("edit_line", id, ev.l)>>
    [] ev.kind = "line_delete" -> <<BAct("delete_line", id, ev.l)>>
    [] ev.kind = "line_format" -> <<BAct("format_line", id, ev.l)>>
    [] ev.kind = "add_line" -> <<BAct("add_line", id, 0)>>
    [] OTHER -> <<>>

\* Vec::swap_remove on the box with that id: the last box takes its place
delete_text_box_swap(boxes, textbox_id) ==
  LET idx == find_idx(boxes, textbox_id) IN
  IF idx = 0 THEN boxes
  ELSE [i \in 1..(Len(boxes) - 1) |-> IF i = idx THEN boxes[Len(boxes)] ELSE boxes[i]]

\* Which box the "delete" action removes
delete_text_box(boxes, textbox_id) == retain_not_id(boxes, textbox_id)

\* A save_title that takes a blank draft too
save_title_unchecked(a, textbox_id) ==
  LET idx == find_idx(a.notes_canvas.text_boxes, textbox_id)
      titled == IF idx /= 0
                THEN [a EXCEPT !.notes_canvas.text_boxes[idx].title = a.temp_title_text]
                ELSE a IN
  [titled EXCEPT !.editing_title = None, !.temp_title_text = EmptyString]

\* The "save_title" arm
save_title(a, textbox_id) ==
  LET idx == find_idx(a.notes_canvas.text_boxes, textbox_id)
      titled == IF idx /= 0 /\ trim(a.temp_title_text) /= EmptyString
                THEN [a EXCEPT !.notes_canvas.text_boxes[idx].title = a.temp_title_text]
                ELSE a IN
  [titled EXCEPT !.editing_title = None, !.temp_title_text = EmptyString]

\* The "cancel_title_edit" arm
cancel_title_edit(a) ==
  [a EXCEPT !.editing_title = None, !.temp_title_text = EmptyString]

\* The "edit_title" arm
edit_title(a, textbox_id) ==
  LET idx == find_idx(a.notes_canvas.text_boxes, textbox_id) IN
  IF idx /= 0
  THEN [a EXCEPT !.editing_title = Some(textbox_id),
                 !.temp_title_text = a.notes_canvas.text_boxes[idx].title]
  ELSE a

\* A delete_line that removes the last line of a box too
delete_line_unguarded(textbox, line_idx) ==
  IF line_idx \in 1..Len(textbox.lines)
  THEN [textbox EXCEPT !.lines = vec_remove(@, line_idx)]
  ELSE Panic

\* The "delete_line" arm, for the box found: the first box with the id of the
\* box whose button was clicked.  The remove panics when that box has no
\* line at line_idx.
delete_line(textbox, line_idx) ==
  IF Len(textbox.lines) > 1
  THEN IF line_idx \in 1..Len(textbox.lines)
       THEN [textbox EXCEPT !.lines = vec_remove(@, line_idx)]
       ELSE Panic
  ELSE textbox

\* One arm of "Process actions (deferred to avoid borrowing issues)"
process_text_box_action(a, act) ==
  LET idx == find_idx(a.notes_canvas.text_boxes, act.textbox_id)
      textbox == a.notes_canvas.text_boxes[idx] IN
  CASE act.action = "delete" ->
         [a EXCEPT !.notes_canvas.text_boxes = delete_text_box(@, act.textbox_id)]
    [] act.action = "edit_title" -> edit_title(a, act.textbox_id)
    [] act.action = "save_title" -> save_title(a, act.textbox_id)
    [] act.action = "cancel_title_edit" -> cancel_title_edit(a)
    [] act.action = "edit_line" ->
         IF idx /= 0 /\ act.line_idx \in 1..Len(textbox.lines)
         THEN [a EXCEPT !.editing_textbox = Some(act.textbox_id),
                        !.editing_line_idx = Some(act.line_idx),
                        !.temp_edit_text = textbox.lines[act.line_idx].text]
         ELSE a
    [] act.action = "add_line" ->
         IF idx /= 0
         THEN [a EXCEPT !.notes_canvas.text_boxes[idx].lines = vec_push(@, empty_line)]
         ELSE a
    [] act.action = "delete_line" ->
         IF idx /= 0
         THEN IF is_panic(delete_line(textbox, act.line_idx))
              THEN Panic
              ELSE [a EXCEPT !.notes_canvas.text_boxes[idx] =
                               delete_line(@, act.line_idx)]
         ELSE a
    [] act.action = "format_line" ->
         [a EXCEPT !.editing_textbox = Some(act.textbox_id),
                   !.editing_line_idx = Some(act.line_idx)]
    [] OTHER -> a

RECURSIVE process_text_box_actions(_, _)
process_text_box_actions(a, acts) ==
  IF acts = <<>> \/ is_panic(a) THEN a
  ELSE process_text_box_actions(process_text_box_action(a, Head(acts)), Tail(acts))

\* TodoApp::render_text_boxes
render_text_boxes(a, ev) ==
  process_text_box_actions(text_box_widgets(a, ev), text_box_actions(a, ev))

\* i.pointer.primary_clicked() of the frame.  A click on the bare canvas and
\* a double click are clicks of the pointer.  A widget that answers clicked()
\* was clicked with the pointer or activated from the keyboard, and the
\* slider changed by a click or by a drag: the event's field primary says
\* which.  A key press, a drag and a right-click are no primary click.
is_primary_click(ev) ==
  \/ ev.kind \in {"canvas_clicked", "title_double_clicked"}
  \/ /\ ev.kind \in {"pen_clicked", "center_clicked", "box_delete",
                      "line_clicked", "line_delete", "line_format", "add_line",
                      "menu_create", "menu_cancel", "edit_save", "edit_cancel",
                      "format_bullet", "format_bullet_color", "format_font_size",
                      "format_text_color", "format_close"}
     /\ ev.primary

\* Whether the right-click at screen_pos lies on a text box (canvas coordinates)
on_textbox(a, screen_pos) ==
  LET canvas_pos == vec2_sub(screen_pos, pan_offset(a)) IN
  \E i \in 1..Len(a.notes_canvas.text_boxes) :
    rect_contains(rect_from_min_size(a.notes_canvas.text_boxes[i].position,
                                     a.notes_canvas.text_boxes[i].size),
                  canvas_pos)

\* TodoApp::handle_context_menu
handle_context_menu(a, ev) ==
  LET offset == pan_offset(a)
      \* "Detect right-click"
      detected == IF ev.kind = "secondary_clicked" /\ ~on_textbox(a, ev.pos)
                  THEN [a EXCEPT !.context_menu_pos = Some(ev.pos)]
                  ELSE a
      \* "Show context menu"
      shown == IF is_some(detected.context_menu_pos)
               THEN CASE ev.kind = "menu_create" ->
                           [create_text_box_at(
                              detected,
                              vec2_sub(unwrap(detected.context_menu_pos), offset))
                            EXCEPT !.context_menu_pos = None]
                      [] ev.kind = "menu_cancel" ->
                           [detected EXCEPT !.context_menu_pos = None]
                      [] OTHER -> detected
               ELSE detected IN
  \* "Close menu on click elsewhere"
  IF is_primary_click(ev) /\ is_some(shown.context_menu_pos)
  THEN [shown EXCEPT !.context_menu_pos = None]
  ELSE shown

\* "Center button in top-right corner"
center_button(a, ev) ==
  IF ev.kind = "center_clicked"
  THEN [a EXCEPT !.notes_canvas.scene_rect =
                    rect_from_min_size(<<0, 0>>, <<SceneRectSize, SceneRectSize>>)]
  ELSE a

\* The line editing_textbox / editing_line_idx name, as a one-element sequence
\* <<idx, line_idx>>, or None
edited_line(a) ==
  IF is_some(a.editing_textbox) /\ is_some(a.editing_line_idx)
  THEN LET idx == find_idx(a.notes_canvas.text_boxes, unwrap(a.editing_textbox))
           line_idx == unwrap(a.editing_line_idx) IN
       IF idx /= 0 /\ line_idx \in 1..Len(a.notes_canvas.text_boxes[idx].lines)
       THEN Some(<<idx, line_idx>>)
       ELSE None
  ELSE None

\* is_editing of render_editing_dialog: whether the "Edit Text" window is shown
is_editing(a) ==
  /\ is_some(edited_line(a))
  /\ LET at == unwrap(edited_line(a))
         line == a.notes_canvas.text_boxes[at[1]].lines[at[2]] IN
     line.text /= EmptyString \/ a.temp_edit_text = EmptyString

\* TodoApp::render_editing_dialog
render_editing_dialog(a, ev) ==
  IF is_editing(a)
  THEN LET at == unwrap(edited_line(a)) IN
       CASE ev.kind = "type_edit_text" -> [a EXCEPT !.temp_edit_text = ev.text]
         [] ev.kind \in {"edit_save", "type_edit_text_enter"} ->
              \* "type_edit_text_enter": the frame's input holds the typed text
              \* and then Enter, so the field changes before Save is decided
              LET temp_edit_text == IF ev.kind = "type_edit_text_enter"
                                    THEN ev.text ELSE a.temp_edit_text IN
              [a EXCEPT !.notes_canvas.text_boxes[at[1]].lines[at[2]].text =
                           temp_edit_text,
                        !.editing_textbox = None,
                        !.editing_line_idx = None,
                        !.temp_edit_text = EmptyString]
         [] ev.kind = "edit_cancel" ->
              [a EXCEPT !.editing_textbox = None,
                        !.editing_line_idx = None,
                        !.temp_edit_text = EmptyString]
         [] OTHER -> a
  ELSE a

\* The condition of render_formatting_dialog: whether the "Format Line" window
\* is shown
is_formatting(a) ==
  /\ is_some(edited_line(a))
  /\ LET at == unwrap(edited_line(a))
         line == a.notes_canvas.text_boxes[at[1]].lines[at[2]] IN
     line.text /= EmptyString /\ a.temp_edit_text = EmptyString

\* TodoApp::render_formatting_dialog
render_formatting_dialog(a, ev) ==
  IF is_formatting(a)
  THEN LET at == unwrap(edited_line(a))
           textbox == a.notes_canvas.text_boxes[at[1]]
           line == textbox.lines[at[2]]
           bullet_style ==
             IF ev.kind = "format_bullet"
             THEN IF ev.style = "Numbered"
                  THEN Numbered(calculate_numbered_position(textbox, at[2]))
                  ELSE <<ev.style>>
             ELSE line.bullet_style
           bullet_color ==
             IF ev.kind = "format_bullet_color" /\ bullet_style /= None_
             THEN ev.color ELSE line.bullet_color
           font_size ==
             IF ev.kind = "format_font_size" THEN ev.size ELSE textbox.font_size
           text_color ==
             IF ev.kind = "format_text_color" THEN ev.color ELSE textbox.text_color
           close_dialog == ev.kind = "format_close"
           written ==
             [a EXCEPT !.notes_canvas.text_boxes[at[1]] =
                [@ EXCEPT !.lines[at[2]].bullet_style = bullet_style,
                          !.lines[at[2]].bullet_color = bullet_color,
                          !.font_size = font_size,
                          !.text_color = text_color]] IN
       IF close_dialog
       THEN [written EXCEPT !.editing_textbox = None, !.editing_line_idx = None]
       ELSE written
  ELSE a

\* TodoApp::render_notes_canvas
render_notes_canvas(a, ev) ==
  LET rendered == render_text_boxes(pan_canvas(a, ev), ev) IN
  IF is_panic(rendered)
  THEN Panic
  ELSE render_formatting_dialog(
         render_editing_dialog(
           center_button(
             handle_context_menu(rendered, ev), ev), ev), ev)

\* Whether the notes frame rendered from state a shows the widget ev acts on.
notes_widget_shown(a, ev) ==
  LET boxes == a.notes_canvas.text_boxes
      has_b == ev.b \in 1..Len(boxes)
      tb == boxes[ev.b]
      has_l == has_b /\ ev.l \in 1..Len(tb.lines) IN
  CASE ev.kind \in {"pan", "secondary_clicked", "canvas_clicked", "center_clicked"} -> TRUE
    [] ev.kind \in {"type_title", "title_enter", "title_escape"} ->
         has_b /\ a.editing_title = Some(tb.id)
    [] ev.kind = "title_double_clicked" -> has_b /\ a.editing_title /= Some(tb.id)
    [] ev.kind \in {"box_delete", "add_line", "box_drag", "box_resize"} -> has_b
    [] ev.kind = "line_clicked" -> has_l
    [] ev.kind \in {"line_delete", "line_format"} ->
         has_l /\ tb.lines[ev.l].text /= EmptyString
    [] ev.kind \in {"menu_create", "menu_cancel"} -> is_some(a.context_menu_pos)
    [] ev.kind \in {"type_edit_text", "type_edit_text_enter", "edit_save",
                    "edit_cancel"} -> is_editing(a)
    [] ev.kind \in {"format_bullet", "format_font_size", "format_text_color",
                    "format_close"} -> is_formatting(a)
    [] ev.kind = "format_bullet_color" ->
         /\ is_formatting(a)
         /\ LET at == unwrap(edited_line(a)) IN
            boxes[at[1]].lines[at[2]].bullet_style /= None_
    [] OTHER -> FALSE

----------------------------------------------------------------------------
(* One frame.                                                              *)

\* TodoApp::render_floating_pen_button
render_floating_pen_button(a, ev) ==
  IF ev.kind = "pen_clicked" THEN [a EXCEPT !.show_notes = ~@] ELSE a

\* <TodoApp as eframe::App>::update
update(a, ev) ==
  LET a1 == render_floating_pen_button(a, ev) IN
  IF a1.show_notes THEN render_notes_canvas(a1, ev) ELSE render_todo_view(a1, ev)

\* Whether the frame rendered from state a shows the widget ev acts on.
widget_shown(a, ev) ==
  /\ ~is_panic(a)
  /\ \/ ev.kind = "pen_clicked"
     \/ ~a.show_notes /\ todo_widget_shown(a, ev)
     \/ a.show_notes /\ notes_widget_shown(a, ev)

----------------------------------------------------------------------------
(* The state machine: a session is constructed from the storage, then      *)
(* runs one frame per user input event; eframe saves it (periodically and  *)
(* on exit) and a later session is constructed from the same storage.      *)

Init ==
  /\ storage \in {NoStorage, EmptyStorage, StorageWith(Garbage),
                  StorageWith(TwiceProjects), StorageWith(IllTypedCounter)}
  /\ app = TodoApp_new(storage)
  /\ last = "new"

\* One frame of update with the event ev
Fire(ev) ==
  /\ app' = update(app, ev)
  /\ last' = ev.kind
  /\ UNCHANGED storage

\* eframe calls save (only when there is a storage, and never after a panic)
Save ==
  /\ storage.available
  /\ ~is_panic(app)
  /\ storage' = TodoApp_save(app, storage)
  /\ last' = "save"
  /\ UNCHANGED app

\* A restart that reopens the view the last session showed
LoadKeepingView ==
  /\ app' = [TodoApp_new(storage) EXCEPT !.show_notes = app.show_notes]
  /\ last' = "new"
  /\ UNCHANGED storage

\* The process ends and a new session starts: TodoApp::new on the same storage
Load ==
  /\ app' = TodoApp_new(storage)
  /\ last' = "new"
  /\ UNCHANGED storage

\* An event happens on a widget the frame shows, and the frame runs
Event(ev) == widget_shown(app, ev) /\ Fire(ev)

PenClicked ==
  \E primary \in BOOLEAN :
    LET ev == [kind |-> "pen_clicked", primary |-> primary] IN
    /\ widget_shown(app, ev)
    /\ Fire(ev)

(* Todo view events *)

\* What the user types or pastes into a text field of the todo view
TodoTexts == {<<" ">>, <<" ", "a">>}

\* What the user types or pastes into the edit field of a name or a task text
EditTexts == {<<" ">>, <<"b", " ">>}

ProjectIdx == 1..Len(app.projects)
TaskIdx(p) == 1..Len(app.projects[p].tasks)

TypeNewProject ==
  \E text \in TodoTexts :
    LET ev == [kind |-> "type_new_project", text |-> text] IN
    /\ widget_shown(app, ev)
    /\ Fire(ev)

AddProject ==
  LET ev == [kind |-> "add_project"] IN
  /\ Len(app.projects) < MaxProjects
  /\ app.next_project_id <= MaxProjects
  /\ widget_shown(app, ev)
  /\ Fire(ev)

ExpandClicked ==
  \E p \in ProjectIdx : Event([kind |-> "expand_clicked", p |-> p])

ExpandSecondaryClicked ==
  \E p \in ProjectIdx : Event([kind |-> "expand_secondary_clicked", p |-> p])

TypeEditProject ==
  \E p \in ProjectIdx, text \in EditTexts :
    Event([kind |-> "type_edit_project", p |-> p, text |-> text])

EditProjectConfirm ==
  \E p \in ProjectIdx : Event([kind |-> "edit_project_confirm", p |-> p])

EditProjectCancel ==
  \E p \in ProjectIdx : Event([kind |-> "edit_project_cancel", p |-> p])

DeleteProject ==
  \E p \in ProjectIdx : Event([kind |-> "delete_project", p |-> p])

EditProject ==
  \E p \in ProjectIdx : Event([kind |-> "edit_project", p |-> p])

TaskCheckbox ==
  \E p \in ProjectIdx : \E t \in TaskIdx(p) :
    Event([kind |-> "task_checkbox", p |-> p, t |-> t])

TypeEditTask ==
  \E p \in ProjectIdx : \E t \in TaskIdx(p) : \E text \in EditTexts :
    Event([kind |-> "type_edit_task", p |-> p, t |-> t, text |-> text])

EditTaskConfirm ==
  \E p \in ProjectIdx : \E t \in TaskIdx(p) :
    Event([kind |-> "edit_task_confirm", p |-> p, t |-> t])

EditTaskCancel ==
  \E p \in ProjectIdx : \E t \in TaskIdx(p) :
    Event([kind |-> "edit_task_cancel", p |-> p, t |-> t])

DeleteTask ==
  \E p \in ProjectIdx : \E t \in TaskIdx(p) :
    Event([kind |-> "delete_task", p |-> p, t |-> t])

EditTask ==
  \E p \in ProjectIdx : \E t \in TaskIdx(p) :
    Event([kind |-> "edit_task", p |-> p, t |-> t])

TypeRightClickTask ==
  \E p \in ProjectIdx, text \in TodoTexts :
    Event([kind |-> "type_right_click_task", p |-> p, text |-> text])

NewTaskConfirm ==
  \E p \in ProjectIdx :
    /\ Len(app.projects[p].tasks) < MaxTasks
    /\ app.next_task_id <= MaxTasks
    /\ Event([kind |-> "new_task_confirm", p |-> p])

NewTaskClose ==
  \E p \in ProjectIdx : Event([kind |-> "new_task_close", p |-> p])

\* The first session on a machine: a storage with no value yet
InitFresh ==
  /\ storage = EmptyStorage
  /\ app = TodoApp_new(storage)
  /\ last = "new"

\* The todo view: projects and tasks are added, ticked, folded and deleted
NextTodo ==
  \/ TypeNewProject \/ AddProject \/ ExpandClicked \/ ExpandSecondaryClicked
  \/ DeleteProject \/ TaskCheckbox \/ DeleteTask
  \/ TypeRightClickTask \/ NewTaskConfirm \/ NewTaskClose

SpecTodo == InitFresh /\ [][NextTodo]_vars

\* A name is typed into the new project field
TypeProjectName ==
  LET ev == [kind |-> "type_new_project", text |-> <<" ", "a">>] IN
  /\ widget_shown(app, ev)
  /\ Fire(ev)

\* A text is typed into the inline task field of a project
TypeTaskText ==
  \E p \in ProjectIdx :
    Event([kind |-> "type_right_click_task", p |-> p, text |-> <<" ", "a">>])

\* The todo view with its edit modes: names and task texts are edited while
\* projects and tasks are added, folded and deleted
NextEdit ==
  \/ TypeProjectName \/ AddProject \/ ExpandClicked \/ ExpandSecondaryClicked
  \/ TypeTaskText \/ NewTaskConfirm
  \/ EditProject \/ EditProjectConfirm \/ EditProjectCancel \/ DeleteProject
  \/ EditTask \/ EditTaskConfirm \/ EditTaskCancel \/ DeleteTask

SpecEdit == InitFresh /\ [][NextEdit]_vars

\* The todo view while names and task texts are rewritten: projects and tasks
\* are added, edits are started, typed into, confirmed and cancelled
NameNextProject ==
  /\ app.next_project_id <= MaxProjects
  /\ TypeProjectName

OpenNextTaskInput ==
  /\ app.next_task_id <= MaxTasks
  /\ ExpandSecondaryClicked

TypeNextTaskText ==
  /\ app.next_task_id <= MaxTasks
  /\ TypeTaskText

NextRename ==
  \/ NameNextProject \/ AddProject
  \/ OpenNextTaskInput \/ TypeNextTaskText \/ NewTaskConfirm
  \/ EditProject \/ TypeEditProject \/ EditProjectConfirm \/ EditProjectCancel
  \/ EditTask \/ TypeEditTask \/ EditTaskConfirm \/ EditTaskCancel

SpecRename == InitFresh /\ [][NextRename]_vars

\* The project list with up to three projects: projects are named, added,
\* folded, given tasks and deleted, the first, a middle or the last one
NameListedProject ==
  /\ app.next_project_id <= MaxListed
  /\ TypeProjectName

AddListedProject ==
  LET ev == [kind |-> "add_project"] IN
  /\ app.next_project_id <= MaxListed
  /\ widget_shown(app, ev)
  /\ Fire(ev)

NextProjects ==
  \/ NameListedProject \/ AddListedProject \/ ExpandClicked
  \/ OpenNextTaskInput \/ TypeNextTaskText \/ NewTaskConfirm \/ TaskCheckbox
  \/ DeleteProject

SpecProjects == InitFresh /\ [][NextProjects]_vars

(* Notes canvas: pointer events *)

\* The drag deltas of a frame are multiples of this vector
Unit == <<40, 25>>
Deltas == {Unit, <<-Unit[1], -Unit[2]>>}

\* The resize drags of the model
ResizeStep == <<300, 200>>
ResizeDeltas == {ResizeStep, <<-ResizeStep[1], -ResizeStep[2]>>}

\* Where the user right-clicks (screen coordinates)
ClickPositions == {<<100, 100>>, <<600, 400>>}
MoreClickPositions == ClickPositions \cup {<<100, 700>>}

BoxIdx == 1..Len(app.notes_canvas.text_boxes)

abs(x) == IF x >= 0 THEN x ELSE -x

\* pos is within n Unit steps of a click position
within_steps(pos, n) ==
  \E c \in ClickPositions : \E k \in (-n)..n :
    pos = <<c[1] + k * Unit[1], c[2] + k * Unit[2]>>

Pan ==
  \E d \in Deltas :
    /\ abs(app.notes_canvas.scene_rect.min[1] + d[1]) <= MaxPan * Unit[1]
    /\ Event([kind |-> "pan", delta |-> d])

CenterClicked ==
  \E primary \in BOOLEAN :
    LET ev == [kind |-> "center_clicked", primary |-> primary] IN
    /\ widget_shown(app, ev)
    /\ Fire(ev)

SecondaryClicked(positions) ==
  \E pos \in positions :
    LET ev == [kind |-> "secondary_clicked", pos |-> pos] IN
    /\ widget_shown(app, ev)
    /\ Fire(ev)

CanvasClicked ==
  LET ev == [kind |-> "canvas_clicked"] IN
  /\ widget_shown(app, ev)
  /\ Fire(ev)

MenuCreate(max_boxes) ==
  /\ Len(app.notes_canvas.text_boxes) < max_boxes
  /\ app.notes_canvas.next_textbox_id <= max_boxes
  /\ \E primary \in BOOLEAN : Event([kind |-> "menu_create", primary |-> primary])

MenuCancel ==
  \E primary \in BOOLEAN :
    LET ev == [kind |-> "menu_cancel", primary |-> primary] IN
    /\ widget_shown(app, ev)
    /\ Fire(ev)

BoxDelete ==
  \E b \in BoxIdx : \E primary \in BOOLEAN :
    Event([kind |-> "box_delete", b |-> b, primary |-> primary])

\* The response of a box's frame: a drag starts (and moves), goes on, or stops
DragFlags ==
  {[drag_started |-> TRUE, dragged |-> TRUE, drag_stopped |-> FALSE],
   [drag_started |-> FALSE, dragged |-> TRUE, drag_stopped |-> FALSE],
   [drag_started |-> FALSE, dragged |-> FALSE, drag_stopped |-> TRUE]}

DragEvent(b, f, d) ==
  [kind |-> "box_drag", b |-> b, drag_started |-> f.drag_started,
   dragged |-> f.dragged, drag_stopped |-> f.drag_stopped, delta |-> d]

BoxDrag ==
  \E b \in BoxIdx, f \in DragFlags, d \in Deltas :
    /\ within_steps(vec2_add(app.notes_canvas.text_boxes[b].position, d), MaxDrag)
    /\ Event(DragEvent(b, f, d))

BoxResize ==
  \E b \in BoxIdx, d \in ResizeDeltas :
    /\ app.notes_canvas.text_boxes[b].size[1] + d[1]
         <= MinBoxWidth + MaxGrow * ResizeStep[1]
    /\ Event([kind |-> "box_resize", b |-> b, delta |-> d])

\* The canvas: boxes are created, dragged, resized and deleted, the view pans
NextCanvas ==
  \/ PenClicked \/ Pan \/ CenterClicked
  \/ SecondaryClicked(ClickPositions) \/ CanvasClicked
  \/ MenuCreate(MaxCanvasBoxes) \/ MenuCancel
  \/ BoxDelete \/ BoxDrag \/ BoxResize

SpecCanvas == InitFresh /\ [][NextCanvas]_vars

(* Notes canvas: text events *)

\* What the user types into a title field
TitleTexts == {<<" ">>, <<"t", " ">>}

\* What the user types into the "Edit Text" window
LineTexts == {<<"x">>}

\* The bullet styles, colours and font sizes the user picks in "Format Line"
StyleChoices == {"Circle", "Numbered"}
ColorChoices == {"RED"}
FontSizeChoices == {20}

LineIdx(b) == 1..Len(app.notes_canvas.text_boxes[b].lines)

TypeTitle ==
  \E b \in BoxIdx, text \in TitleTexts :
    Event([kind |-> "type_title", b |-> b, text |-> text])

TitleEnter == \E b \in BoxIdx : Event([kind |-> "title_enter", b |-> b])

TitleEscape == \E b \in BoxIdx : Event([kind |-> "title_escape", b |-> b])

TitleDoubleClicked ==
  \E b \in BoxIdx : Event([kind |-> "title_double_clicked", b |-> b])

LineClicked ==
  \E b \in BoxIdx : \E l \in LineIdx(b) : \E primary \in BOOLEAN :
    Event([kind |-> "line_clicked", b |-> b, l |-> l, primary |-> primary])

LineDelete ==
  \E b \in BoxIdx : \E l \in LineIdx(b) : \E primary \in BOOLEAN :
    Event([kind |-> "line_delete", b |-> b, l |-> l, primary |-> primary])

LineFormat ==
  \E b \in BoxIdx : \E l \in LineIdx(b) : \E primary \in BOOLEAN :
    Event([kind |-> "line_format", b |-> b, l |-> l, primary |-> primary])

AddLine ==
  \E b \in BoxIdx :
    /\ Len(app.notes_canvas.text_boxes[b].lines) < MaxLines
    /\ \E primary \in BOOLEAN :
         Event([kind |-> "add_line", b |-> b, primary |-> primary])

TypeEditText ==
  \E text \in LineTexts :
    LET ev == [kind |-> "type_edit_text", text |-> text] IN
    /\ widget_shown(app, ev)
    /\ Fire(ev)

\* The text is typed and Enter is pressed within one frame
TypeEditTextEnter ==
  \E text \in LineTexts :
    LET ev == [kind |-> "type_edit_text_enter", text |-> text] IN
    /\ widget_shown(app, ev)
    /\ Fire(ev)

\* Save and Cancel: the key (Enter, Escape) is pressed, or the button is
\* clicked with the pointer or activated from the keyboard: <<key, primary>>
KeyOrClick == {<<TRUE, FALSE>>, <<FALSE, TRUE>>, <<FALSE, FALSE>>}

EditSave ==
  \E kp \in KeyOrClick :
    LET ev == [kind |-> "edit_save", key |-> kp[1], primary |-> kp[2]] IN
    /\ widget_shown(app, ev)
    /\ Fire(ev)

EditCancel ==
  \E kp \in KeyOrClick :
    LET ev == [kind |-> "edit_cancel", key |-> kp[1], primary |-> kp[2]] IN
    /\ widget_shown(app, ev)
    /\ Fire(ev)

FormatBullet ==
  \E style \in StyleChoices : \E primary \in BOOLEAN :
    LET ev == [kind |-> "format_bullet", style |-> style, primary |-> primary] IN
    /\ widget_shown(app, ev)
    /\ Fire(ev)

FormatBulletColor ==
  \E color \in ColorChoices : \E primary \in BOOLEAN :
    LET ev == [kind |-> "format_bullet_color", color |-> color, primary |-> primary] IN
    /\ widget_shown(app, ev)
    /\ Fire(ev)

FormatFontSize ==
  \E size \in FontSizeChoices : \E primary \in BOOLEAN :
    LET ev == [kind |-> "format_font_size", size |-> size, primary |-> primary] IN
    /\ widget_shown(app, ev)
    /\ Fire(ev)

FormatTextColor ==
  \E color \in ColorChoices : \E primary \in BOOLEAN :
    LET ev == [kind |-> "format_text_color", color |-> color, primary |-> primary] IN
    /\ widget_shown(app, ev)
    /\ Fire(ev)

FormatClose ==
  \E primary \in BOOLEAN :
    LET ev == [kind |-> "format_close", primary |-> primary] IN
    /\ widget_shown(app, ev)
    /\ Fire(ev)

\* The notes' texts: titles are edited, the boxes' lines are given text and
\* formatted
NextNotes ==
  \/ PenClicked \/ SecondaryClicked(MoreClickPositions) \/ MenuCreate(MaxBoxes)
  \/ BoxDelete
  \/ TypeTitle \/ TitleEnter \/ TitleEscape \/ TitleDoubleClicked
  \/ LineClicked \/ EditCancel

SpecNotes == InitFresh /\ [][NextNotes]_vars

\* The boxes come, get text and formats, and go: what could reorder them
NextOrder ==
  \/ PenClicked \/ SecondaryClicked(MoreClickPositions) \/ MenuCreate(MaxBoxes)
  \/ BoxDelete
  \/ TitleDoubleClicked \/ TitleEscape
  \/ LineClicked \/ TypeEditTextEnter \/ EditCancel
  \/ LineFormat \/ FormatClose

SpecOrder == InitFresh /\ [][NextOrder]_vars

\* One right-click position is enough to put a box on the canvas
OneClickPosition == {<<100, 100>>}

\* The lines of a box: added, given text, formatted and deleted
NextLines ==
  \/ PenClicked \/ SecondaryClicked(OneClickPosition) \/ MenuCreate(MaxLineBoxes)
  \/ AddLine \/ LineClicked \/ LineDelete \/ LineFormat
  \/ TypeEditText \/ TypeEditTextEnter \/ EditSave \/ EditCancel
  \/ FormatBullet \/ FormatClose

SpecLines == InitFresh /\ [][NextLines]_vars

(* Sessions: the state is saved and a later session loads it *)

\* Sessions on one project, one task and one text box that save and restart
AddStoredProject ==
  /\ Len(app.projects) < MaxStored
  /\ AddProject

AddStoredTask ==
  /\ app.next_task_id <= MaxStored
  /\ NewTaskConfirm

NextPersist ==
  \/ PenClicked \/ TypeNewProject \/ AddStoredProject
  \/ ExpandSecondaryClicked \/ TypeRightClickTask \/ AddStoredTask
  \/ SecondaryClicked(OneClickPosition) \/ MenuCreate(MaxStored)
  \/ BoxDrag
  \/ Save \/ Load

SpecPersist == Init /\ [][NextPersist]_vars

\* One project, one task and one text box are named and renamed
NextNames ==
  \/ TypeProjectName \/ AddStoredProject
  \/ ExpandSecondaryClicked \/ TypeTaskText \/ AddStoredTask
  \/ EditProject \/ TypeEditProject \/ EditProjectConfirm
  \/ EditTask \/ TypeEditTask \/ EditTaskConfirm
  \/ PenClicked \/ SecondaryClicked(OneClickPosition) \/ MenuCreate(MaxStored)
  \/ TitleDoubleClicked \/ TypeTitle \/ TitleEnter

SpecNames == InitFresh /\ [][NextNames]_vars

\* Sessions that issue ids of the three kinds, delete what has them, save and
\* restart
NextIds ==
  \/ PenClicked \/ TypeProjectName \/ AddProject \/ DeleteProject
  \/ ExpandSecondaryClicked \/ TypeTaskText \/ AddStoredTask \/ DeleteTask
  \/ SecondaryClicked(OneClickPosition) \/ MenuCreate(MaxStored) \/ BoxDelete
  \/ Save \/ Load

SpecIds == InitFresh /\ [][NextIds]_vars

\* A session that fills the to-do list and then the canvas, one step after
\* the other, and is saved at any step; the session that follows the save is
\* constructed from the storage. The storage the first session starts on is
\* empty or holds a value that does not deserialize.
InitRoundTrip ==
  /\ storage \in {EmptyStorage, StorageWith(Garbage)}
  /\ app = TodoApp_new(storage)
  /\ last = "new"

\* The state was not saved yet and the last event was one of kinds
follows(kinds) ==
  /\ storage \in {EmptyStorage, StorageWith(Garbage)}
  /\ last \in kinds

\* Two projects are named and added
FirstNameProject ==
  /\ follows({"new", "add_project"})
  /\ app.next_project_id <= MaxProjects
  /\ TypeProjectName

ThenAddProject ==
  /\ follows({"type_new_project"})
  /\ AddProject

\* Two tasks are added, to the same project or to different ones
ThenOpenTaskInput ==
  /\ follows({"add_project", "new_task_confirm"})
  /\ app.next_task_id <= MaxTasks
  /\ ExpandSecondaryClicked

ThenTypeTaskText ==
  /\ follows({"expand_secondary_clicked"})
  /\ TypeTaskText

ThenAddTask ==
  /\ follows({"type_right_click_task"})
  /\ NewTaskConfirm

\* A task is ticked, then a project is folded
ThenTickTask ==
  /\ follows({"new_task_confirm"})
  /\ TaskCheckbox

ThenFoldProject ==
  /\ follows({"task_checkbox"})
  /\ ExpandClicked

\* The canvas is opened, on the list as it is by then
ThenOpenCanvas ==
  /\ follows({"new", "add_project", "new_task_confirm", "task_checkbox",
              "expand_clicked"})
  /\ PenClicked

\* A first box is created, dragged, resized and given a title
ThenRightClick ==
  /\ follows({"pen_clicked"})
  /\ SecondaryClicked(OneClickPosition)

ThenCreateBox ==
  /\ follows({"secondary_clicked"})
  /\ MenuCreate(MaxCanvasBoxes)

ThenDragBox ==
  /\ follows({"menu_create", "box_drag"})
  /\ Len(app.notes_canvas.text_boxes) = 1
  /\ BoxDrag

ThenResizeBox ==
  /\ follows({"box_drag"})
  /\ \A b \in BoxIdx : ~app.notes_canvas.text_boxes[b].is_dragging
  /\ BoxResize

ThenEditTitle ==
  /\ follows({"box_resize"})
  /\ TitleDoubleClicked

ThenTypeTitle ==
  /\ follows({"title_double_clicked"})
  /\ TypeTitle

ThenConfirmTitle ==
  /\ follows({"type_title"})
  /\ TitleEnter

\* Its line is given a text and formats, and a second line is added
ThenEditLine ==
  /\ follows({"title_enter"})
  /\ LineClicked

ThenTypeLine ==
  /\ follows({"line_clicked"})
  /\ TypeEditTextEnter

ThenFormatLine ==
  /\ follows({"type_edit_text_enter"})
  /\ LineFormat

ThenPickBullet ==
  /\ follows({"line_format"})
  /\ FormatBullet

ThenPickBulletColor ==
  /\ follows({"format_bullet"})
  /\ FormatBulletColor

ThenPickFontSize ==
  /\ follows({"format_bullet_color"})
  /\ FormatFontSize

ThenPickTextColor ==
  /\ follows({"format_font_size"})
  /\ FormatTextColor

ThenCloseFormat ==
  /\ follows({"format_text_color"})
  /\ FormatClose

ThenAddLine ==
  /\ follows({"format_close"})
  /\ AddLine

\* The view is panned and centered, and a second box is created
ThenPan ==
  /\ follows({"add_line", "pan"})
  /\ Pan

ThenCenter ==
  /\ follows({"pan"})
  /\ CenterClicked

ThenRightClickAgain ==
  /\ follows({"pan", "center_clicked"})
  /\ SecondaryClicked(ClickPositions)

NextRoundTrip ==
  \/ FirstNameProject \/ ThenAddProject
  \/ ThenOpenTaskInput \/ ThenTypeTaskText \/ ThenAddTask
  \/ ThenTickTask \/ ThenFoldProject
  \/ ThenOpenCanvas \/ ThenRightClick \/ ThenCreateBox
  \/ ThenDragBox \/ ThenResizeBox
  \/ ThenEditTitle \/ ThenTypeTitle \/ ThenConfirmTitle
  \/ ThenEditLine \/ ThenTypeLine \/ ThenFormatLine
  \/ ThenPickBullet \/ ThenPickBulletColor \/ ThenPickFontSize
  \/ ThenPickTextColor \/ ThenCloseFormat \/ ThenAddLine
  \/ ThenPan \/ ThenCenter \/ ThenRightClickAgain
  \/ Save \/ Load

SpecRoundTrip == InitRoundTrip /\ [][NextRoundTrip]_vars

----------------------------------------------------------------------------
(* Persistence claims, checked under SpecPersist and SpecRoundTrip.        *)

\* The serialized fields of a text box: all but is_dragging
persisted_text_box(b) ==
  [id |-> b.id, title |-> b.title, position |-> b.position, size |-> b.size,
   lines |-> b.lines, font_size |-> b.font_size, text_color |-> b.text_color,
   min_size |-> b.min_size]

\* The serialized fields of the state: those that are not #[serde(skip)]
persisted(a) ==
  [projects |-> a.projects,
   next_project_id |-> a.next_project_id,
   next_task_id |-> a.next_task_id,
   text_boxes |-> [i \in 1..Len(a.notes_canvas.text_boxes) |->
                     persisted_text_box(a.notes_canvas.text_boxes[i])],
   next_textbox_id |-> a.notes_canvas.next_textbox_id,
   scene_rect |-> a.notes_canvas.scene_rect]

\* C1: a save followed by a new session on the same storage is a round trip:
\* the projects with their tasks, the three id counters, the text boxes (all
\* fields but is_dragging) and scene_rect of the new session equal the values
\* they had when the state was saved.
C1_SaveLoadRoundTrip ==
  [][(last = "save" /\ last' = "new") => persisted(app') = persisted(app)]_vars

\* A session loaded a state in which every serialized part had been changed:
\* two projects, one of them folded, two tasks in one project, one of them
\* ticked, a panned view and two text boxes, the first one dragged, resized
\* and retitled, with two lines, the first with a text, a bullet and colours
C1_Witness ==
  /\ last = "new"
  /\ StorageKey \in DOMAIN storage.slots
  /\ Len(app.projects) = 2
  /\ app.projects[1].id = 1 /\ app.projects[2].id = 2
  /\ \E p \in 1..2 : ~app.projects[p].expanded
  /\ \E p \in 1..2 :
       /\ Len(app.projects[p].tasks) = 2
       /\ app.projects[p].tasks[1].id = 1 /\ app.projects[p].tasks[2].id = 2
       /\ \E t \in 1..2 : app.projects[p].tasks[t].completed
       /\ \E t \in 1..2 : ~app.projects[p].tasks[t].completed
  /\ app.next_project_id = 3 /\ app.next_task_id = 3
  /\ app.notes_canvas.scene_rect /= NotesCanvas_default.scene_rect
  /\ app.notes_canvas.next_textbox_id = 3
  /\ Len(app.notes_canvas.text_boxes) = 2
  /\ LET first == app.notes_canvas.text_boxes[1]
         second == app.notes_canvas.text_boxes[2] IN
     /\ first.id = 1 /\ second.id = 2
     /\ first.position /= <<100, 100>>
     /\ first.size = <<MinBoxWidth, MinBoxHeight>>
     /\ first.title /= fmt_note_title(1)
     /\ first.font_size /= DefaultFontSize
     /\ first.text_color /= WHITE
     /\ Len(first.lines) = 2
     /\ first.lines[1].text /= EmptyString
     /\ first.lines[1].bullet_style = Numbered(1)
     /\ first.lines[1].bullet_color /= WHITE
     /\ second.size = <<DefaultBoxWidth, DefaultBoxHeight>>

\* The session cannot load a state: there is no storage, no value under the
\* key, or a value that does not deserialize
cannot_load(st) ==
  \/ ~st.available
  \/ StorageKey \notin DOMAIN st.slots
  \/ ~de_TodoApp(st.slots[StorageKey]).ok

\* C2: loading is best-effort: when there is no storage, no value under
\* "todo_app_data" or a value that cannot be deserialized, TodoApp::new gives
\* the default state: no projects, no text boxes, the three id counters 1 and
\* scene_rect from the origin with size 5000 x 5000.
C2_LoadBestEffort ==
  (last = "new" /\ cannot_load(storage)) =>
    /\ app.projects = <<>>
    /\ app.notes_canvas.text_boxes = <<>>
    /\ app.next_project_id = 1
    /\ app.next_task_id = 1
    /\ app.notes_canvas.next_textbox_id = 1
    /\ app.notes_canvas.scene_rect = [min |-> <<0, 0>>, max |-> <<5000, 5000>>]

\* A session started on a stored value that is not a serialized state
C2_Witness ==
  /\ last = "new"
  /\ storage.available
  /\ StorageKey \in DOMAIN storage.slots
  /\ ~de_TodoApp(storage.slots[StorageKey]).ok
  /\ app = TodoApp_default

\* The transient fields of a are those of a session that has just started
transient_state_is_default(a) ==
  /\ a.show_notes = FALSE
  /\ a.editing_project = None
  /\ a.editing_task = None
  /\ a.adding_task_to_project = None
  /\ a.context_menu_pos = None
  /\ a.editing_textbox = None
  /\ a.editing_line_idx = None
  /\ a.editing_title = None
  /\ a.new_project_name = EmptyString
  /\ a.edit_project_text = EmptyString
  /\ a.edit_task_text = EmptyString
  /\ a.temp_edit_text = EmptyString
  /\ a.temp_title_text = EmptyString
  /\ a.new_task_texts = EmptyMap
  /\ a.right_click_task_text = EmptyMap
  /\ \A i \in 1..Len(a.notes_canvas.text_boxes) :
       ~a.notes_canvas.text_boxes[i].is_dragging

\* C3: transient UI state is never persisted: whatever the state of the
\* session that ends, the session started by TodoApp::new shows the to-do
\* view, edits nothing, has no open context menu, has empty drafts and no
\* text box with is_dragging set.
C3_TransientNotPersisted ==
  [][last' = "new" => transient_state_is_default(app')]_vars

\* A session has started on a saved state that holds a project and a text box
C3_Witness ==
  /\ last = "new"
  /\ Len(app.projects) > 0
  /\ Len(app.notes_canvas.text_boxes) > 0
  /\ transient_state_is_default(app)

----------------------------------------------------------------------------
(* To-do claims, checked under SpecTodo and SpecProjects.                  *)

\* v without its element at idx
without(v, idx) == SubSeq(v, 1, idx - 1) \o SubSeq(v, idx + 1, Len(v))

\* C4: deleting a project removes exactly that project with the tasks it
\* holds: in every reachable state, a click on the delete button of any
\* project shown leaves the other projects as they were (id, name, expanded
\* flag, tasks) and in the same relative order, and leaves next_project_id and
\* next_task_id unchanged.
C4_DeleteProjectFrame ==
  \A p \in 1..Len(app.projects) :
    LET ev == [kind |-> "delete_project", p |-> p]
        after == update(app, ev) IN
    widget_shown(app, ev) =>
      /\ after.projects = without(app.projects, p)
      /\ after.next_project_id = app.next_project_id
      /\ after.next_task_id = app.next_task_id

\* The ids of the projects of a, in the order of the list
project_ids(a) == [i \in 1..Len(a.projects) |-> a.projects[i].id]

\* The first of three projects was deleted; the second and the third are
\* left in that order, one of them with a task
C4_Witness ==
  /\ last = "delete_project"
  /\ project_ids(app) = <<2, 3>>
  /\ \E i \in 1..2 : Len(app.projects[i].tasks) > 0
  /\ app.next_project_id = 4

\* Task texts as typed, with what is left of them after trimming
TaskTextCases ==
  {[typed |-> <<"a">>, trimmed |-> <<"a">>],
   [typed |-> <<" ", "a">>, trimmed |-> <<"a">>],
   [typed |-> <<"a", " ", "b", " ">>, trimmed |-> <<"a", " ", "b">>],
   [typed |-> <<" ", " ", "a", " ">>, trimmed |-> <<"a">>]}

\* C5: add_task_to_project(p, text), for the id p of an existing project and
\* a text that is not blank, appends one task to the end of that project's
\* tasks, with id the previous next_task_id, the trimmed text and completed =
\* false, adds one to next_task_id and leaves the existing tasks, the other
\* projects and the rest of the state unchanged.
C5_AddTaskToProject ==
  \A p \in 1..Len(app.projects) : \A c \in TaskTextCases :
    LET after == add_task_to_project(app, app.projects[p].id, c.typed)
        task == [id |-> app.next_task_id, text |-> c.trimmed, completed |-> FALSE] IN
    after = [app EXCEPT !.projects[p].tasks = Append(@, task),
                        !.next_task_id = @ + 1]

\* A task typed as " a" was added to the second project, after the task of
\* the first
C5_Witness ==
  /\ last = "new_task_confirm"
  /\ Len(app.projects) = 2
  /\ Len(app.projects[1].tasks) = 1
  /\ Len(app.projects[2].tasks) = 1
  /\ app.projects[2].tasks[1] = [id |-> 2, text |-> <<"a">>, completed |-> FALSE]
  /\ app.next_task_id = 3

----------------------------------------------------------------------------
(* Canvas claims, checked under SpecCanvas.                                *)

\* Pans, among them one far beyond the scene rectangle
PanCases == Deltas \cup {<<-6000, 7000>>, <<0, -25>>}

\* Resize drags, among them two that shrink one side only
ResizeCases == ResizeDeltas \cup {<<-300, 10>>, <<10, -200>>}

\* The input events a frame of the notes canvas can get in state a, the
\* widget of each still to be looked up with widget_shown
NotesEvents(a) ==
  LET boxes == 1..Len(a.notes_canvas.text_boxes)
      lines == {bl \in boxes \X (1..MaxLines) :
                  bl[2] <= Len(a.notes_canvas.text_boxes[bl[1]].lines)} IN
  {[kind |-> "canvas_clicked"]}
  \cup {[kind |-> k, primary |-> primary] :
          k \in {"pen_clicked", "center_clicked", "menu_create", "menu_cancel",
                 "format_close"}, primary \in BOOLEAN}
  \cup {[kind |-> "pan", delta |-> d] : d \in PanCases}
  \cup {[kind |-> "secondary_clicked", pos |-> pos] : pos \in MoreClickPositions}
  \cup {[kind |-> k, b |-> b] :
          k \in {"title_enter", "title_escape", "title_double_clicked"},
          b \in boxes}
  \cup {[kind |-> k, b |-> b, primary |-> primary] :
          k \in {"box_delete", "add_line"}, b \in boxes, primary \in BOOLEAN}
  \cup {[kind |-> "type_title", b |-> b, text |-> text] :
          b \in boxes, text \in TitleTexts}
  \cup {DragEvent(b, f, d) : b \in boxes, f \in DragFlags, d \in Deltas}
  \cup {[kind |-> "box_resize", b |-> b, delta |-> d] :
          b \in boxes, d \in ResizeCases}
  \cup {[kind |-> k, b |-> bl[1], l |-> bl[2], primary |-> primary] :
          k \in {"line_clicked", "line_delete", "line_format"}, bl \in lines,
          primary \in BOOLEAN}
  \cup {[kind |-> k, text |-> text] :
          k \in {"type_edit_text", "type_edit_text_enter"}, text \in LineTexts}
  \cup {[kind |-> k, key |-> kp[1], primary |-> kp[2]] :
          k \in {"edit_save", "edit_cancel"}, kp \in KeyOrClick}
  \cup {[kind |-> "format_bullet", style |-> style, primary |-> primary] :
          style \in StyleChoices, primary \in BOOLEAN}
  \cup {[kind |-> k, color |-> color, primary |-> primary] :
          k \in {"format_bullet_color", "format_text_color"},
          color \in ColorChoices, primary \in BOOLEAN}
  \cup {[kind |-> "format_font_size", size |-> size, primary |-> primary] :
          size \in FontSizeChoices, primary \in BOOLEAN}

\* The events of NotesEvents whose widget the frame of state a shows
ShownNotesEvents(a) ==
  IF a.show_notes THEN {ev \in NotesEvents(a) : widget_shown(a, ev)} ELSE {}

\* C6: panning is unbounded and moves the view only: in every reachable state
\* of the canvas (scene_rect already panned or not), a middle-button drag by d
\* translates scene_rect by exactly d, however large d is, and leaves the text
\* boxes (position, size, content) as they were, so that each box's screen
\* position, position + scene_rect.min, moves by d.
C6_PanMovesOnlyTheView ==
  app.show_notes =>
    \A d \in PanCases :
      LET ev == [kind |-> "pan", delta |-> d]
          before == app.notes_canvas
          after == update(app, ev).notes_canvas IN
      /\ widget_shown(app, ev)
      /\ after.scene_rect.min = <<before.scene_rect.min[1] + d[1],
                                  before.scene_rect.min[2] + d[2]>>
      /\ after.scene_rect.max = <<before.scene_rect.max[1] + d[1],
                                  before.scene_rect.max[2] + d[2]>>
      /\ after.text_boxes = before.text_boxes
      /\ \A i \in 1..Len(before.text_boxes) :
           vec2_add(after.text_boxes[i].position, after.scene_rect.min)
             = vec2_add(vec2_add(before.text_boxes[i].position,
                                 before.scene_rect.min), d)

\* The view was panned to the left and up of the origin with a box on the canvas
C6_Witness ==
  /\ last = "pan"
  /\ app.notes_canvas.scene_rect.min = <<-40, -25>>
  /\ app.notes_canvas.scene_rect.max = <<4960, 4975>>
  /\ Len(app.notes_canvas.text_boxes) > 0

\* The box of a that has the id of tb, as a sequence of at most one box
same_box(a, tb) ==
  SelectSeq(a.notes_canvas.text_boxes, LAMBDA x : x.id = tb.id)

\* C7: the stored position of a text box changes only through a drag of
\* that box while its is_dragging flag is set; the flag is set when the drag
\* starts and cleared when it stops.  A drag step adds the drag delta to the
\* position of the box and leaves its size, title and lines, the other boxes
\* and scene_rect unchanged; every other event leaves the position of every
\* box that stays on the canvas unchanged.
C7_PositionChangesOnlyByDrag ==
  \A ev \in ShownNotesEvents(app) :
    LET before == app.notes_canvas
        after == update(app, ev).notes_canvas IN
    \A i \in 1..Len(before.text_boxes) :
      LET tb == before.text_boxes[i]
          on_box == ev.kind = "box_drag" /\ ev.b = i
          flag == IF on_box /\ ev.drag_started THEN TRUE ELSE tb.is_dragging
          step == on_box /\ ev.dragged /\ flag IN
      \A tb2 \in {same_box(update(app, ev), tb)[n] :
                    n \in 1..Len(same_box(update(app, ev), tb))} :
        /\ tb2.position = IF step THEN <<tb.position[1] + ev.delta[1],
                                         tb.position[2] + ev.delta[2]>>
                          ELSE tb.position
        /\ on_box =>
             /\ tb2.is_dragging = IF ev.drag_stopped THEN FALSE ELSE flag
             /\ tb2.size = tb.size
             /\ tb2.title = tb.title
             /\ tb2.lines = tb.lines
             /\ after.text_boxes = [before.text_boxes EXCEPT ![i] = tb2]
             /\ after.scene_rect = before.scene_rect
        /\ ~on_box => tb2.is_dragging = tb.is_dragging

\* The second of two boxes is in mid-drag, one step away from where it was
\* created; the first is where it was created
C7_Witness ==
  /\ last = "box_drag"
  /\ Len(app.notes_canvas.text_boxes) = 2
  /\ app.notes_canvas.text_boxes[2].is_dragging
  /\ ~within_steps(app.notes_canvas.text_boxes[2].position, 0)
  /\ within_steps(app.notes_canvas.text_boxes[1].position, 0)

\* C8: every text box is at least min_size = 150 x 80 wide and high: a box is
\* created larger, a resize drag adds the drag delta to the size and then
\* raises each side to min_size, and no other event changes the size or the
\* min_size of a box.
C8_SizeAtLeastMinSize ==
  /\ \A i \in 1..Len(app.notes_canvas.text_boxes) :
       LET tb == app.notes_canvas.text_boxes[i] IN
       /\ tb.min_size = <<150, 80>>
       /\ tb.size[1] >= 150
       /\ tb.size[2] >= 80
  /\ \A ev \in ShownNotesEvents(app) :
       \A i \in 1..Len(app.notes_canvas.text_boxes) :
         LET tb == app.notes_canvas.text_boxes[i]
             w == tb.size[1] + ev.delta[1]
             h == tb.size[2] + ev.delta[2] IN
         \A tb2 \in {same_box(update(app, ev), tb)[n] :
                       n \in 1..Len(same_box(update(app, ev), tb))} :
           /\ tb2.min_size = tb.min_size
           /\ tb2.size = IF ev.kind = "box_resize" /\ ev.b = i
                         THEN <<IF w < 150 THEN 150 ELSE w,
                                IF h < 80 THEN 80 ELSE h>>
                         ELSE tb.size

\* A box was shrunk below min_size and stopped at 150 x 80
C8_Witness ==
  /\ last = "box_resize"
  /\ \E i \in 1..Len(app.notes_canvas.text_boxes) :
       app.notes_canvas.text_boxes[i].size = <<150, 80>>

----------------------------------------------------------------------------
(* Z-order, checked under SpecOrder.                                       *)

\* The ids of the text boxes of a, bottom to top: render_text_boxes iterates
\* text_boxes from the first to the last, each box drawn over the ones before
z_order(a) == ids_of(a.notes_canvas.text_boxes)

\* C9: the z-order of the text boxes is the order of text_boxes and is
\* stable: "Create Text Box" puts the new box last (topmost), "delete"
\* leaves the boxes that remain in the order they had, and no other event of
\* the canvas (drag, resize, pan, title and line edits, formats, clicks) and
\* no save followed by a load changes the order.
C9_ZOrderStable ==
  /\ \A ev \in ShownNotesEvents(app) :
       LET before == z_order(app)
           after == z_order(update(app, ev)) IN
       CASE ev.kind = "menu_create" ->
              after = before \o <<app.notes_canvas.next_textbox_id>>
         [] ev.kind = "box_delete" ->
              after = SubSeq(before, 1, ev.b - 1) \o SubSeq(before, ev.b + 1, Len(before))
         [] OTHER -> after = before
  /\ z_order(TodoApp_new(TodoApp_save(app, storage))) = z_order(app)

\* The second of three boxes was deleted; the first and the third are left
\* in that order, the first with text in its line
C9_Witness ==
  /\ last = "box_delete"
  /\ z_order(app) = <<1, 3>>
  /\ app.notes_canvas.text_boxes[1].lines[1].text /= EmptyString

----------------------------------------------------------------------------
(* Title editing, checked under SpecNotes.                                 *)

\* s holds nothing but white space
is_blank(s) == \A i \in 1..Len(s) : s[i] \in WhiteSpace

\* The titles of the text boxes of a, in the order of the boxes
titles(a) == [i \in 1..Len(a.notes_canvas.text_boxes) |->
                a.notes_canvas.text_boxes[i].title]

\* C10: editing the title of a text box: a double-click on the title starts
\* the edit with the current title as the draft; Enter with a draft that is
\* not blank sets the title to the draft, Enter with a blank draft and Escape
\* leave the title as it was; after Enter and after Escape editing_title is
\* None and the draft is empty; the titles of the other boxes never change.
C10_TitleEditing ==
  app.show_notes =>
    \A b \in 1..Len(app.notes_canvas.text_boxes) :
      LET tb == app.notes_canvas.text_boxes[b]
          draft == app.temp_title_text
          start == [kind |-> "title_double_clicked", b |-> b]
          enter == [kind |-> "title_enter", b |-> b]
          escape == [kind |-> "title_escape", b |-> b] IN
      /\ widget_shown(app, start) =>
           LET after == update(app, start) IN
           /\ after.editing_title = Some(tb.id)
           /\ after.temp_title_text = tb.title
           /\ titles(after) = titles(app)
      /\ widget_shown(app, enter) =>
           LET after == update(app, enter) IN
           /\ titles(after) = [titles(app) EXCEPT
                                 ![b] = IF is_blank(draft) THEN @ ELSE draft]
           /\ after.editing_title = None
           /\ after.temp_title_text = EmptyString
      /\ widget_shown(app, escape) =>
           LET after == update(app, escape) IN
           /\ titles(after) = titles(app)
           /\ after.editing_title = None
           /\ after.temp_title_text = EmptyString

\* Enter gave the second of two boxes the title typed for it, "t " with its
\* trailing space; the first box has the title it was created with
C10_Witness ==
  /\ last = "title_enter"
  /\ Len(app.notes_canvas.text_boxes) >= 2
  /\ app.notes_canvas.text_boxes[1].title = <<"N", "o", "t", "e", " ", "1">>
  /\ app.notes_canvas.text_boxes[2].title = <<"t", " ">>
  /\ app.editing_title = None
  /\ app.temp_title_text = EmptyString

----------------------------------------------------------------------------
(* Lines and their formats, checked under SpecLines.                       *)

\* The number of Numbered lines of box tb before line i
numbered_before(tb, i) ==
  Cardinality({j \in 1..(i - 1) : tb.lines[j].bullet_style[1] = "Numbered"})

\* C11: when "1. Numbered" is chosen for line i of a box in the Format Line
\* window, the line gets the number 1 + the count of the lines before i in
\* that box that are Numbered at that moment, and the bullet style and the
\* bullet colour of every other line, of that box and of the others, stay as
\* they were.
C11_NumberedPosition ==
  LET ev == [kind |-> "format_bullet", style |-> "Numbered", primary |-> TRUE] IN
  (widget_shown(app, ev) /\ is_some(edited_line(app))) =>
    LET at == unwrap(edited_line(app))
        before == app.notes_canvas.text_boxes
        after == update(app, ev).notes_canvas.text_boxes IN
    /\ Len(after) = Len(before)
    /\ \A b \in 1..Len(before) :
         /\ Len(after[b].lines) = Len(before[b].lines)
         /\ \A l \in 1..Len(before[b].lines) :
              IF <<b, l>> = at
              THEN after[b].lines[l].bullet_style
                     = <<"Numbered", 1 + numbered_before(before[b], l)>>
              ELSE /\ after[b].lines[l].bullet_style = before[b].lines[l].bullet_style
                   /\ after[b].lines[l].bullet_color = before[b].lines[l].bullet_color

\* The third line of a box was numbered 2: of the two lines before it the
\* first is Numbered and the second has a circle
C11_Witness ==
  /\ last = "format_bullet"
  /\ Len(app.notes_canvas.text_boxes) = 1
  /\ Len(app.notes_canvas.text_boxes[1].lines) = 3
  /\ app.notes_canvas.text_boxes[1].lines[1].bullet_style = <<"Numbered", 1>>
  /\ app.notes_canvas.text_boxes[1].lines[2].bullet_style = <<"Circle">>
  /\ app.notes_canvas.text_boxes[1].lines[3].bullet_style = <<"Numbered", 2>>
  /\ app.editing_line_idx = <<3>>

editing_empty_line(a) ==
  /\ is_editing(a)
  /\ LET at == unwrap(edited_line(a)) IN
     a.notes_canvas.text_boxes[at[1]].lines[at[2]].text = EmptyString

\* C15: a line without text gets text through the Edit Text window: once the
\* window is shown for such a line, the frame in which a non-empty text t is
\* typed leaves the window shown, and Save in the next frame sets the line's
\* text to t and clears editing_textbox, editing_line_idx and the draft.
C15_EmptyLineGetsText ==
  editing_empty_line(app) =>
    \A t \in LineTexts :
      LET at == unwrap(edited_line(app))
          typed == update(app, [kind |-> "type_edit_text", text |-> t])
          saved == update(typed, [kind |-> "edit_save", key |-> FALSE,
                                  primary |-> TRUE]) IN
      /\ is_editing(typed)
      /\ typed.temp_edit_text = t
      /\ saved.notes_canvas.text_boxes[at[1]].lines[at[2]].text = t
      /\ saved.editing_textbox = None
      /\ saved.editing_line_idx = None
      /\ saved.temp_edit_text = EmptyString

\* The line a new box starts with and add_line appends
blank_line == [text |-> <<>>, bullet_style |-> <<"None">>, bullet_color |-> "WHITE"]

\* C20: every text box has at least one line at all times: a box is created
\* with exactly one empty line, add_line appends exactly one empty line with
\* bullet style None, and delete_line removes the line it names only when the
\* box has more than one line and does nothing otherwise.
C20_AtLeastOneLine ==
  LET before == app.notes_canvas.text_boxes IN
  /\ \A b \in 1..Len(before) : Len(before[b].lines) >= 1
  /\ \A ev \in ShownNotesEvents(app) :
       LET after == update(app, ev).notes_canvas.text_boxes IN
       CASE ev.kind = "menu_create" ->
              /\ Len(after) = Len(before) + 1
              /\ after[Len(after)].lines = <<blank_line>>
         [] ev.kind = "add_line" ->
              /\ Len(after) = Len(before)
              /\ after[ev.b].lines = Append(before[ev.b].lines, blank_line)
         [] ev.kind = "line_delete" ->
              /\ Len(after) = Len(before)
              /\ after[ev.b].lines =
                   IF Len(before[ev.b].lines) > 1
                   THEN without(before[ev.b].lines, ev.l)
                   ELSE before[ev.b].lines
         [] OTHER -> TRUE

\* The delete button of a line was clicked and its box has its single line,
\* which has text, and no more
C20_Witness ==
  /\ last = "line_delete"
  /\ Len(app.notes_canvas.text_boxes) = 1
  /\ Len(app.notes_canvas.text_boxes[1].lines) = 1
  /\ app.notes_canvas.text_boxes[1].lines[1].text /= EmptyString

----------------------------------------------------------------------------
(* Edit modes of the todo view, checked under SpecEdit.                    *)

\* The input events a frame of the todo view can get in state a, the widget
\* of each still to be looked up with widget_shown
TodoEvents(a) ==
  LET projects == 1..Len(a.projects)
      tasks == {pt \in projects \X (1..MaxTasks) :
                  pt[2] <= Len(a.projects[pt[1]].tasks)} IN
  {[kind |-> "pen_clicked", primary |-> primary] : primary \in BOOLEAN}
  \cup {[kind |-> "add_project"]}
  \cup {[kind |-> "type_new_project", text |-> text] : text \in TodoTexts}
  \cup {[kind |-> k, p |-> p] :
          k \in {"expand_clicked", "expand_secondary_clicked", "edit_project",
                 "edit_project_confirm", "edit_project_cancel", "delete_project",
                 "new_task_confirm", "new_task_close"},
          p \in projects}
  \cup {[kind |-> "type_edit_project", p |-> p, text |-> text] :
          p \in projects, text \in EditTexts}
  \cup {[kind |-> "type_right_click_task", p |-> p, text |-> text] :
          p \in projects, text \in TodoTexts}
  \cup {[kind |-> k, p |-> pt[1], t |-> pt[2]] :
          k \in {"task_checkbox", "edit_task", "edit_task_confirm",
                 "edit_task_cancel", "delete_task"},
          pt \in tasks}
  \cup {[kind |-> "type_edit_task", p |-> pt[1], t |-> pt[2], text |-> text] :
          pt \in tasks, text \in EditTexts}

\* The events of TodoEvents whose widget the frame of state a shows
ShownTodoEvents(a) ==
  IF a.show_notes THEN {} ELSE {ev \in TodoEvents(a) : widget_shown(a, ev)}

\* C16: a right click on the expand/collapse button of any project, expanded
\* or collapsed, lets the user add a task: the next frame shows the inline
\* "New Task" input of that project, and confirming it with a text that is
\* not blank appends exactly one task to the project, sets
\* adding_task_to_project to None and clears the draft.
C16_RightClickAddsTask ==
  ~app.show_notes =>
    \A p \in 1..Len(app.projects) :
      LET id == app.projects[p].id
          clicked == update(app, [kind |-> "expand_secondary_clicked", p |-> p]) IN
      /\ widget_shown(clicked, [kind |-> "new_task_confirm", p |-> p])
      /\ \A text \in TodoTexts :
           LET typed == update(clicked, [kind |-> "type_right_click_task",
                                         p |-> p, text |-> text])
               done == update(typed, [kind |-> "new_task_confirm", p |-> p]) IN
           (\E i \in 1..Len(text) : text[i] /= " ") =>
             /\ Len(done.projects[p].tasks) = Len(app.projects[p].tasks) + 1
             /\ \A q \in 1..Len(app.projects) :
                  q /= p => done.projects[q] = app.projects[q]
             /\ done.adding_task_to_project = None
             /\ done.right_click_task_text[id] = EmptyString

\* Whether the inline task field of every project that state a renders has its
\* draft in right_click_task_text
has_inline_draft(a) ==
  \A p \in 1..Len(a.projects) :
    (a.projects[p].expanded /\ a.adding_task_to_project = <<a.projects[p].id>>)
      => a.projects[p].id \in DOMAIN a.right_click_task_text

\* C17: the unwrap on the inline task draft never fails: in every reachable
\* state, and after every frame from it (project deletions, cancelled and
\* confirmed additions, folding) and after a save and a restart, whenever
\* adding_task_to_project is Some(p) and the project with id p is expanded,
\* right_click_task_text has an entry for p, and no frame panics.
C17_InlineDraftPresent ==
  /\ has_inline_draft(app)
  /\ \A ev \in ShownTodoEvents(app) :
       /\ ~is_panic(update(app, ev))
       /\ has_inline_draft(update(app, ev))
  /\ has_inline_draft(TodoApp_new(storage))
  /\ has_inline_draft(TodoApp_new(TodoApp_save(app, storage)))

\* A project was right-clicked while collapsed and has now been expanded: its
\* inline field is rendered for the first time
C17_Witness ==
  /\ last = "expand_clicked"
  /\ \E p \in 1..Len(app.projects) :
       /\ app.projects[p].expanded
       /\ app.adding_task_to_project = <<app.projects[p].id>>

\* Whether the project that state a has in edit mode, if any, exists
edited_project_exists(a) ==
  a.editing_project /= <<>> =>
    \E p \in 1..Len(a.projects) : <<a.projects[p].id>> = a.editing_project

\* C18: with one input event per frame, whenever editing_project is Some(p) a
\* project with id p exists, now and after every frame: the delete button of
\* a project is offered only while the project is not the one in edit mode.
C18_EditedProjectExists ==
  /\ edited_project_exists(app)
  /\ \A ev \in ShownTodoEvents(app) : edited_project_exists(update(app, ev))

\* A project was deleted while the other one is in edit mode
C18_Witness ==
  /\ last = "delete_project"
  /\ app.editing_project /= <<>>
  /\ Len(app.projects) = 1

\* Whether the task that state a has in edit mode, if any, exists in its
\* project
edited_task_exists(a) ==
  a.editing_task /= <<>> =>
    \E p \in 1..Len(a.projects) : \E t \in 1..Len(a.projects[p].tasks) :
      <<<<a.projects[p].id, a.projects[p].tasks[t].id>>>> = a.editing_task

\* C19: with one input event per frame, whenever editing_task is Some((p, t))
\* a project with id p exists and contains a task with id t.
C19_EditedTaskExists == edited_task_exists(app)

----------------------------------------------------------------------------
(* Ids, checked under SpecIds.                                             *)

\* The ids of all tasks, project after project
RECURSIVE task_ids_from(_, _)
task_ids_from(projects, p) ==
  IF p > Len(projects) THEN <<>>
  ELSE [t \in 1..Len(projects[p].tasks) |-> projects[p].tasks[t].id]
         \o task_ids_from(projects, p + 1)

\* No two elements of the sequence are equal and all are below the bound
distinct_below(ids, bound) ==
  /\ \A i, j \in 1..Len(ids) : i /= j => ids[i] /= ids[j]
  /\ \A i \in 1..Len(ids) : ids[i] < bound

\* The ids of each kind in state a are distinct and below the kind's counter
ids_distinct_below_counters(a) ==
  /\ distinct_below([p \in 1..Len(a.projects) |-> a.projects[p].id], a.next_project_id)
  /\ distinct_below(task_ids_from(a.projects, 1), a.next_task_id)
  /\ distinct_below([b \in 1..Len(a.notes_canvas.text_boxes) |->
                       a.notes_canvas.text_boxes[b].id],
                    a.notes_canvas.next_textbox_id)

\* No counter of state b is below the one of state a.  An id is issued as the
\* value of its counter, so the ids ever issued are below the largest value
\* the counter has had.
counters_not_below(a, b) ==
  /\ b.next_project_id >= a.next_project_id
  /\ b.next_task_id >= a.next_task_id
  /\ b.notes_canvas.next_textbox_id >= a.notes_canvas.next_textbox_id

\* The storage holds the state as it is: a save would change nothing
is_saved == storage.available /\ TodoApp_save(app, storage) = storage

\* The statement that ids are never reused, over every step, loads included:
\* after each step the ids of each kind are distinct and below their counter
\* and no counter has gone down.
C13_IdsNeverReused ==
  [][/\ ids_distinct_below_counters(app')
     /\ counters_not_below(app, app')]_vars

\* C13: ids are unique and never reused within a session and across a restart
\* that loads the state as it was: after every step the ids of each kind are
\* distinct and below their counter; no frame of any shown widget (create,
\* delete, edit) and no save lowers a counter, and neither does a load when
\* the storage holds the current state.  (A load of an older or of no saved
\* state sets the counters back to the saved values.)
C13_IdsNeverReusedWhenSaved ==
  /\ [](/\ ids_distinct_below_counters(app)
        /\ \A ev \in ShownTodoEvents(app) \cup ShownNotesEvents(app) :
             /\ ids_distinct_below_counters(update(app, ev))
             /\ counters_not_below(app, update(app, ev)))
  /\ [][(last' /= "new" \/ is_saved) => counters_not_below(app, app')]_vars

\* Project 1 was deleted and the project added after it has id 2; the state
\* was saved and loaded since
C13_Witness ==
  /\ last = "new"
  /\ Len(app.projects) = 1
  /\ app.projects[1].id = 2
  /\ app.next_project_id = 3

----------------------------------------------------------------------------
(* Names and task texts, checked under SpecRename.                         *)

\* The projects of state a with the name of project p replaced
with_name(a, p, name) == [a.projects EXCEPT ![p].name = name]

\* The projects of state a with the text of task t of project p replaced
with_text(a, p, t, text) == [a.projects EXCEPT ![p].tasks[t].text = text]

\* C24: editing of project names and task texts.  Starting an edit puts the
\* item in edit mode with its current name/text as the draft and changes no
\* name or text, also when another item is in edit mode; confirming with a
\* draft that has a non-whitespace character replaces the name/text of exactly
\* that item with the draft, confirming with a blank draft and cancelling
\* change no name or text; confirming and cancelling end the edit mode.
C24_NameAndTextEditing ==
  \A ev \in ShownTodoEvents(app) :
    LET after == update(app, ev)
        id == app.projects[ev.p].id
        task == app.projects[ev.p].tasks[ev.t] IN
    CASE ev.kind = "edit_project" ->
           /\ after.editing_project = <<id>>
           /\ after.edit_project_text = app.projects[ev.p].name
           /\ after.projects = app.projects
      [] ev.kind = "edit_project_confirm" ->
           /\ after.editing_project = <<>>
           /\ after.projects =
                IF is_blank(app.edit_project_text) THEN app.projects
                ELSE with_name(app, ev.p, app.edit_project_text)
      [] ev.kind = "edit_project_cancel" ->
           /\ after.editing_project = <<>>
           /\ after.projects = app.projects
      [] ev.kind = "edit_task" ->
           /\ after.editing_task = <<<<id, task.id>>>>
           /\ after.edit_task_text = task.text
           /\ after.projects = app.projects
      [] ev.kind = "edit_task_confirm" ->
           /\ after.editing_task = <<>>
           /\ after.projects =
                IF is_blank(app.edit_task_text) THEN app.projects
                ELSE with_text(app, ev.p, ev.t, app.edit_task_text)
      [] ev.kind = "edit_task_cancel" ->
           /\ after.editing_task = <<>>
           /\ after.projects = app.projects
      [] OTHER -> TRUE

\* The edit of a task was confirmed with the draft "b " while the other task
\* keeps the text it was added with
C24_Witness ==
  /\ last = "edit_task_confirm"
  /\ app.editing_task = <<>>
  /\ \E p \in 1..Len(app.projects) :
       /\ Len(app.projects[p].tasks) = 2
       /\ app.projects[p].tasks[1].text = <<"b", " ">>
       /\ app.projects[p].tasks[2].text = <<"a">>

\* C22: task text is stored trimmed: no task's text begins or ends with
\* white space.
C22_TaskTextTrimmed ==
  \A p \in 1..Len(app.projects) : \A t \in 1..Len(app.projects[p].tasks) :
    LET text == app.projects[p].tasks[t].text IN
    text /= <<>> =>
      /\ text[1] \notin WhiteSpace
      /\ text[Len(text)] \notin WhiteSpace

----------------------------------------------------------------------------
(* Bad input of the add operations, checked under SpecTodo.                *)

\* Texts that are empty or hold white space only
BlankTexts ==
  {<<>>, <<" ">>, <<"\t", " ">>, <<" ", "\n", " ">>, <<"\r", "\f">>, <<"U+00A0", "U+3000">>}

\* Ids to look up: those that were issued or are about to be, and two more
IdCases == 0..(MaxProjects + 2)

\* C23: add_task_to_project on the id of no project, with any text, or with an
\* empty or white-space-only text, on any id, leaves the projects with their
\* tasks and next_task_id unchanged; add_project with an empty or
\* white-space-only new_project_name leaves the projects, next_project_id and
\* new_project_name unchanged.
C23_BadInputIsNoOp ==
  LET ids == {app.projects[p].id : p \in 1..Len(app.projects)} IN
  /\ \A id \in IdCases :
       \A text \in BlankTexts \cup {c.typed : c \in TaskTextCases} :
         (id \notin ids \/ text \in BlankTexts) =>
           LET after == add_task_to_project(app, id, text) IN
           /\ after.projects = app.projects
           /\ after.next_task_id = app.next_task_id
  /\ (\A i \in 1..Len(app.new_project_name) :
        app.new_project_name[i] \in WhiteSpace) =>
       LET after == add_project(app) IN
       /\ after.projects = app.projects
       /\ after.next_project_id = app.next_project_id
       /\ after.new_project_name = app.new_project_name

\* Add Project was clicked with the draft " ": the draft is still there and
\* the one project that was deleted before has not been replaced
C23_Witness ==
  /\ last = "add_project"
  /\ app.new_project_name = <<" ">>
  /\ app.projects = <<>>
  /\ app.next_project_id = 2

----------------------------------------------------------------------------
(* Names, checked under SpecNames.                                         *)

\* s has a character that is not white space
has_text(s) == \E i \in 1..Len(s) : s[i] \notin WhiteSpace

\* Every project name, task text and text box title of state a has a
\* character that is not white space
names_not_blank(a) ==
  /\ \A p \in 1..Len(a.projects) :
       /\ has_text(a.projects[p].name)
       /\ \A t \in 1..Len(a.projects[p].tasks) : has_text(a.projects[p].tasks[t].text)
  /\ \A b \in 1..Len(a.notes_canvas.text_boxes) :
       has_text(a.notes_canvas.text_boxes[b].title)

\* C21: names are never blank: in every reachable state, and after the frame
\* of every widget shown in it (add, edit, confirm, cancel, delete, with blank
\* drafts and others), every project name, every task text and every text box
\* title has at least one character that is not white space.
C21_NamesNotBlank ==
  /\ names_not_blank(app)
  /\ \A ev \in ShownTodoEvents(app) \cup ShownNotesEvents(app) :
       names_not_blank(update(app, ev))

\* The rename of a project was ended with the draft " " and, later, the title
\* edit of a box with Enter: the project has a name and the box the title it
\* was created with
C21_Witness ==
  /\ last = "title_enter"
  /\ app.edit_project_text = <<" ">>
  /\ app.editing_project = <<>>
  /\ Len(app.projects) = 1
  /\ Len(app.notes_canvas.text_boxes) = 1
  /\ app.notes_canvas.text_boxes[1].title = <<"N", "o", "t", "e", " ", "1">>

----------------------------------------------------------------------------
(* The context menu of the canvas, checked under SpecCanvas.               *)

\* C25: the context menu is open exactly when the latest pointer click was a
\* right-click outside every text box: the frame of a right-click at a screen
\* position outside every box ends with the menu open there, the frame of a
\* right-click whose canvas position (screen position minus pan offset) lies
\* inside a box ends with context_menu_pos = None, and so does the frame of
\* every primary click, the clicks on Create Text Box and Cancel included.
C25_ContextMenuFollowsLastClick ==
  \A ev \in ShownNotesEvents(app) :
    LET after == update(app, ev) IN
    /\ ev.kind = "secondary_clicked" =>
         after.context_menu_pos =
           IF on_textbox(app, ev.pos) THEN <<>> ELSE <<ev.pos>>
    /\ is_primary_click(ev) => after.context_menu_pos = <<>>

----------------------------------------------------------------------------
(* The numbers of numbered lines, checked under SpecLines.                 *)

====
